---------------------------- MODULE Spec2Model ----------------------------
(***************************************************************************)
(* SerialStreamer of CaptureKVM (src/src/InputCapture.cpp, from line 1300  *)
(* on; declaration in src/unnamed/part_001).                               *)
(*                                                                         *)
(* The streamer owns three FIFO queues of TLV frames, a serial port handle *)
(* and one worker thread.  Client threads call start(), stop(), the        *)
(* publish* functions and requestReconnect().  Every region of the source  *)
(* that runs under mutex_ is one atomic action here, and so is every read  *)
(* of the atomic running_ outside the lock, so that the interleavings of   *)
(* the source are the interleavings of the model.  The clients are four    *)
(* threads: one that calls start(), one that calls stop(), the input-hook  *)
(* thread (publish*Report) and the audio thread (publishMicrophoneSamples).*)
(***************************************************************************)
EXTENDS Integers, Sequences, FiniteSets, TLC

\* ------------------------------------------------------------------ bounds
\* kMaxQueuedPackets is 1024 in the source (InputCapture.cpp:1324); the model
\* runs the same code with a small cap so that saturation is reachable.
kMaxQueuedPackets == 2
\* number of frames the client threads enqueue in one behaviour
MaxFrames == 3
\* largest of the small byteCounts handed to publishMicrophoneSamples
MaxMicBytes == 1

\* ------------------------------------------------------------ program text
\* publishMicrophoneSamples: const std::size_t maxChunk = 0xFFFFu;
maxChunk == 65535

\* the byteCounts handed to publishMicrophoneSamples: a few small ones, and
\* one that does not fit one chunk
MicByteCounts == (1..MaxMicBytes) \cup {maxChunk + 1}

\* SerialStreamer::kDefaultBaudRate
kDefaultBaudRate == 6000000

INVALID_HANDLE_VALUE == "INVALID_HANDLE_VALUE"
COM == "COM"

HidTypes == {"Keyboard", "Mouse", "MouseAbsolute"}
PacketTypes == HidTypes \cup {"Microphone"}

NoPacket == [id |-> 0, type |-> "none", len |-> 0]

\* std::array<std::uint8_t, 8>, <.., 5>, <.., 7> of the three publish*Report
PayloadSize(type) ==
    CASE type = "Keyboard" -> 8
      [] type = "Mouse" -> 5
      [] type = "MouseAbsolute" -> 7

\* buildPacket: two sync bytes, type, two length bytes, then the payload
PacketSize(p) == 5 + p.len

\* the port has not been closed by an I/O error since it was last opened
NoOutage == [since |-> -1, cause |-> "none"]

\* no pass through the dirty branch yet
NoPass == [cause |-> "none", discarded |-> 0, opened |-> TRUE, retry |-> FALSE]

VARIABLES
    running_,          \* std::atomic<bool>
    exitRequested_,
    portDirty_,
    portHandle_,
    mouseQueue_,
    keyboardQueue_,
    microphoneQueue_,
    totalQueued_,
    worker_,           \* the std::thread object: "empty" or "joinable"
    wpc,               \* position of the worker thread
    packet,            \* workerLoop's local packet
    handle,            \* workerLoop's local handle
    offset,            \* workerLoop's local offset
    ioResult,          \* what WriteFile / ClearCommError returned to the worker
    startPc,           \* position of the thread inside start()
    stopPc,            \* position of the thread inside stop()
    hpc,               \* position of the input-hook thread inside publish*Report
    htype,             \* PacketType of the publish*Report call in progress
    mpc,               \* position of the audio thread inside publishMicrophoneSamples
    remaining,         \* publishMicrophoneSamples' local remaining
    micRunning,        \* publishMicrophoneSamples' local running
    deviceOk,          \* environment: CreateFileW/GetCommState/SetCommState succeed
    terminated,        \* std::terminate was called
    nextId,            \* frames built so far (identifies frames)
    stopReturned,      \* history: a stop() ran to its end and no start() was called since
    outage,            \* history: from an I/O error that closed the port until the port is
                       \* reopened: nextId at the error, and what failed
    baudRate_,
    preferredPortName_,
    managers,          \* the InputCaptureManager objects: their members, and what the
                       \* call in progress handed to streamer_ (sent) and to the
                       \* window's message queue (posted)
    instance_,         \* InputCaptureManager::instance_
    heldKeys,          \* history: the usages whose key-down reached the key table of
                       \* handleKeyboardEvent and whose key-up has not, since the
                       \* keyboard state was last reset
    menuRun,           \* history: the menu key as the hook saw it: whether it is down,
                       \* whether it was pressed with the chord armed and Ctrl and Alt
                       \* held and only its own key-downs followed, and the show-menu
                       \* messages posted since that press
    call,              \* a call of a function of the program: its name and arguments
    result,            \* what that call returned
    dirtyPass          \* history: the worker's latest pass through the dirty branch, until
                       \* the worker dequeues a frame or is asked to exit:
                       \* the I/O error it followed ("none": no error), how many frames it
                       \* discarded, whether it opened the port, and whether it came after
                       \* a pass that did not

queueVars == <<mouseQueue_, keyboardQueue_, microphoneQueue_, totalQueued_>>
workerVars == <<wpc, packet, handle, offset, ioResult>>
hidVars == <<hpc, htype>>
micVars == <<mpc, remaining, micRunning>>
histVars == <<stopReturned, outage, dirtyPass>>
configVars == <<baudRate_, preferredPortName_>>
fnVars == <<call, result>>
inputVars == <<managers, instance_, heldKeys, menuRun>>

\* the SerialStreamer as start(), stop(), the publish* calls, requestReconnect()
\* and the worker see it
streamerVars == <<running_, exitRequested_, portDirty_, portHandle_, queueVars,
                  worker_, workerVars, startPc, stopPc, hidVars, micVars, deviceOk,
                  terminated, nextId, histVars>>

\* what those leave alone
beyondStreamer == <<configVars, fnVars, inputVars>>

vars == <<streamerVars, beyondStreamer>>

\* ------------------------------------------- InputCaptureManager: members
nullptr == 0
\* the application's window, and a window of another program
hwnd_ == 1
otherWindow == 2

POINT(x, y) == [x |-> x, y |-> y]
RECT(left, top, right, bottom) ==
    [left |-> left, top |-> top, right |-> right, bottom |-> bottom]

\* the members of an InputCaptureManager after construction (InputCapture.hpp,
\* lines 67-105); sent and posted are what a call hands to streamer_ and to the
\* target window's message queue
NewManager ==
    [enabled_ |-> FALSE, absoluteMode_ |-> FALSE, captureBoundsValid_ |-> FALSE,
     targetWindow_ |-> nullptr, menuChordEnabled_ |-> FALSE,
     targetWidth_ |-> 1920, targetHeight_ |-> 1080,
     relativeCaptureActive_ |-> FALSE,
     keyboardHook_ |-> nullptr, mouseHook_ |-> nullptr,
     lastMousePoint_ |-> POINT(0, 0), hasLastMousePoint_ |-> FALSE,
     activeKeys_ |-> <<>>, keyboardOverflow_ |-> FALSE,
     captureBounds_ |-> RECT(0, 0, 0, 0), videoBounds_ |-> RECT(0, 0, 0, 0),
     videoBoundsValid_ |-> FALSE,
     leftCtrl_ |-> FALSE, rightCtrl_ |-> FALSE, leftShift_ |-> FALSE,
     rightShift_ |-> FALSE, leftAlt_ |-> FALSE, rightAlt_ |-> FALSE,
     leftWin_ |-> FALSE, rightWin_ |-> FALSE,
     menuChordLatched_ |-> FALSE, relativeCaptureSuspended_ |-> FALSE,
     relativeAnchorPoint_ |-> POINT(0, 0),
     cursorHidden_ |-> FALSE, cursorClipped_ |-> FALSE,
     skipNextRelativeEvent_ |-> FALSE,
     leftButtonDown_ |-> FALSE, rightButtonDown_ |-> FALSE,
     middleButtonDown_ |-> FALSE, xButton1Down_ |-> FALSE, xButton2Down_ |-> FALSE,
     sent |-> <<>>, posted |-> <<>>]

\* the application's manager and a second one
Instances == {1, 2}

NoRun == [down |-> FALSE, run |-> FALSE, shown |-> 0]

\* no manager enabled, no hook installed
InputIdle ==
    /\ managers = [i \in Instances |-> NewManager]
    /\ instance_ = nullptr
    /\ heldKeys = {}
    /\ menuRun = NoRun

\* no function called
NoCall == [fn |-> "none"]
NoResult == "none"

\* the members of a SerialStreamer after construction
StreamerInit ==
    /\ running_ = FALSE
    /\ exitRequested_ = FALSE
    /\ portDirty_ = FALSE
    /\ portHandle_ = INVALID_HANDLE_VALUE
    /\ mouseQueue_ = <<>>
    /\ keyboardQueue_ = <<>>
    /\ microphoneQueue_ = <<>>
    /\ totalQueued_ = 0
    /\ worker_ = "empty"
    /\ wpc = "none"
    /\ packet = NoPacket
    /\ handle = INVALID_HANDLE_VALUE
    /\ offset = 0
    /\ ioResult = "none"
    /\ startPc = "idle"
    /\ stopPc = "idle"
    /\ hpc = "idle"
    /\ htype = "none"
    /\ mpc = "idle"
    /\ remaining = 0
    /\ micRunning = FALSE
    /\ deviceOk \in BOOLEAN
    /\ terminated = FALSE
    /\ nextId = 0
    /\ stopReturned = FALSE
    /\ outage = NoOutage
    /\ dirtyPass = NoPass
    /\ baudRate_ = kDefaultBaudRate
    /\ preferredPortName_ = ""

Init ==
    /\ StreamerInit
    /\ InputIdle
    /\ call = NoCall
    /\ result = NoResult

\* ----------------------------------------------------- helpers on the queues
\* the three deques and the cross-queue counter, as one value
Queues ==
    [mouse |-> mouseQueue_, keyboard |-> keyboardQueue_,
     microphone |-> microphoneQueue_, total |-> totalQueued_]

SetQueues(q) ==
    /\ mouseQueue_' = q.mouse
    /\ keyboardQueue_' = q.keyboard
    /\ microphoneQueue_' = q.microphone
    /\ totalQueued_' = q.total

Ids(seq) == {seq[i].id : i \in 1..Len(seq)}
QueuedIds(q) == Ids(q.mouse) \cup Ids(q.keyboard) \cup Ids(q.microphone)
QueuedCount(q) == Len(q.mouse) + Len(q.keyboard) + Len(q.microphone)

\* flushQueueLocked
flushQueueLocked ==
    [mouse |-> <<>>, keyboard |-> <<>>, microphone |-> <<>>, total |-> 0]

\* variant of dropFrom that leaves the counter alone
dropFromKeepingCount(q, name) == [q EXCEPT ![name] = Tail(q[name])]

\* the dropFrom lambda of trimQueuesLocked, applied to queue `name`
dropFrom(q, name) ==
    [q EXCEPT ![name] = Tail(q[name]),
              !.total = IF q.total > 0 THEN q.total - 1 ELSE q.total]

\* variant of the trim, cap off by one: while (totalQueued_ > kMaxQueuedPackets + 1)
RECURSIVE trimAboveCap(_)
trimAboveCap(q) ==
    IF q.total > kMaxQueuedPackets + 1
    THEN IF q.microphone # <<>> THEN trimAboveCap(dropFrom(q, "microphone"))
         ELSE IF q.keyboard # <<>> THEN trimAboveCap(dropFrom(q, "keyboard"))
         ELSE IF q.mouse # <<>> THEN trimAboveCap(dropFrom(q, "mouse"))
         ELSE q
    ELSE q

\* variant of the trim, in the order of the dequeue: mouse first
RECURSIVE trimMouseFirst(_)
trimMouseFirst(q) ==
    IF q.total > kMaxQueuedPackets
    THEN IF q.mouse # <<>> THEN trimMouseFirst(dropFrom(q, "mouse"))
         ELSE IF q.keyboard # <<>> THEN trimMouseFirst(dropFrom(q, "keyboard"))
         ELSE IF q.microphone # <<>> THEN trimMouseFirst(dropFrom(q, "microphone"))
         ELSE q
    ELSE q

\* trimQueuesLocked: while over the cap drop the front of the microphone
\* queue, else of the keyboard queue, else of the mouse queue
RECURSIVE trimQueuesLocked(_)
trimQueuesLocked(q) ==
    IF q.total > kMaxQueuedPackets
    THEN IF q.microphone # <<>> THEN trimQueuesLocked(dropFrom(q, "microphone"))
         ELSE IF q.keyboard # <<>> THEN trimQueuesLocked(dropFrom(q, "keyboard"))
         ELSE IF q.mouse # <<>> THEN trimQueuesLocked(dropFrom(q, "mouse"))
         ELSE q
    ELSE q

\* variant of the targetQueue switch with absolute mouse reports in the
\* default branch
targetQueueRelativeOnly(type) ==
    CASE type = "Mouse" -> "mouse"
      [] type = "Keyboard" -> "keyboard"
      [] OTHER -> "microphone"

\* the targetQueue switch of enqueuePacket
targetQueue(type) ==
    CASE type \in {"Mouse", "MouseAbsolute"} -> "mouse"
      [] type = "Keyboard" -> "keyboard"
      [] OTHER -> "microphone"

\* the locked part of enqueuePacket: push_back, ++totalQueued_, trim
enqueueLocked(q, p) ==
    trimQueuesLocked([q EXCEPT ![targetQueue(p.type)] = Append(@, p),
                               !.total = @ + 1])

\* variant of the dequeue, in arrival order: the oldest front first
dequeueOldest(q) ==
    LET heads == {n \in {"mouse", "keyboard", "microphone"} : q[n] # <<>>}
    IN IF heads = {} THEN "microphone"
       ELSE CHOOSE n \in heads : \A m \in heads : Head(q[n]).id <= Head(q[m]).id

\* the queue workerLoop dequeues from: mouse, else keyboard, else microphone
dequeueFrom(q) ==
    IF q.mouse # <<>> THEN "mouse"
    ELSE IF q.keyboard # <<>> THEN "keyboard"
    ELSE "microphone"

\* openDeviceLocked: the handle afterwards (still invalid when the open failed)
openDeviceLocked(h, ok) ==
    IF h # INVALID_HANDLE_VALUE THEN h
    ELSE IF ok THEN COM ELSE INVALID_HANDLE_VALUE

\* closeDeviceLocked: the handle afterwards
closeDeviceLocked == INVALID_HANDLE_VALUE


\* ------------------------------------------------------- start() and stop()
\* start(), line 1484: running_.compare_exchange_strong(false, true)
StartCall ==
    /\ ~terminated
    /\ startPc = "idle"
    /\ stopReturned' = FALSE
    /\ IF running_
       THEN UNCHANGED <<running_, startPc>>
       ELSE /\ running_' = TRUE
            /\ startPc' = "start_lock"
    /\ UNCHANGED <<exitRequested_, portDirty_, portHandle_, queueVars, worker_,
                   workerVars, stopPc, hidVars, micVars, deviceOk, terminated,
                   nextId, outage, dirtyPass>>
    /\ UNCHANGED beyondStreamer

\* start(), lines 1489-1493: under the lock
StartLocked ==
    /\ ~terminated
    /\ startPc = "start_lock"
    /\ exitRequested_' = FALSE
    /\ portDirty_' = TRUE
    /\ startPc' = "start_spawn"
    /\ UNCHANGED <<running_, portHandle_, queueVars, worker_, workerVars, stopPc,
                   hidVars, micVars, deviceOk, terminated, nextId, histVars>>
    /\ UNCHANGED beyondStreamer

\* std::terminate: the process is gone, and with it every thread and object
Terminate ==
    /\ terminated' = TRUE
    /\ running_' = FALSE
    /\ exitRequested_' = FALSE
    /\ portDirty_' = FALSE
    /\ portHandle_' = INVALID_HANDLE_VALUE
    /\ SetQueues(flushQueueLocked)
    /\ worker_' = "empty"
    /\ wpc' = "none"
    /\ packet' = NoPacket
    /\ handle' = INVALID_HANDLE_VALUE
    /\ offset' = 0
    /\ ioResult' = "none"
    /\ startPc' = "idle"
    /\ stopPc' = "idle"
    /\ hpc' = "idle"
    /\ htype' = "none"
    /\ mpc' = "idle"
    /\ remaining' = 0
    /\ micRunning' = FALSE
    /\ deviceOk' = FALSE
    /\ nextId' = 0
    /\ stopReturned' = FALSE
    /\ outage' = NoOutage
    /\ dirtyPass' = NoPass

\* start(), line 1497: worker_ = std::thread(...).  Move-assigning to a
\* std::thread that is still joinable calls std::terminate.
StartSpawn ==
    /\ ~terminated
    /\ startPc = "start_spawn"
    /\ IF worker_ = "joinable"
       THEN Terminate
       ELSE /\ startPc' = "idle"
            /\ worker_' = "joinable"
            /\ wpc' = "wait"
            /\ UNCHANGED <<packet, handle, offset, ioResult, terminated>>
            /\ UNCHANGED <<running_, exitRequested_, portDirty_, portHandle_,
                           queueVars, stopPc, hidVars, micVars, deviceOk, nextId,
                           histVars>>
    /\ UNCHANGED beyondStreamer

\* stop(), lines 1502-1506: running_.exchange(false)
StopCall ==
    /\ ~terminated
    /\ stopPc = "idle"
    /\ running_' = FALSE
    /\ stopPc' = IF running_ THEN "stop_lock" ELSE "idle"
    /\ UNCHANGED <<exitRequested_, portDirty_, portHandle_, queueVars, worker_,
                   workerVars, startPc, hidVars, micVars, deviceOk, terminated,
                   nextId, histVars>>
    /\ UNCHANGED beyondStreamer

\* stop(), lines 1508-1512: exitRequested_ = true under the lock, notify_all
StopLocked ==
    /\ ~terminated
    /\ stopPc = "stop_lock"
    /\ exitRequested_' = TRUE
    /\ stopPc' = "stop_joinable"
    /\ UNCHANGED <<running_, portDirty_, portHandle_, queueVars, worker_,
                   workerVars, startPc, hidVars, micVars, deviceOk, terminated,
                   nextId, histVars>>
    /\ UNCHANGED beyondStreamer

\* stop(), line 1514: if (worker_.joinable())
StopJoinable ==
    /\ ~terminated
    /\ stopPc = "stop_joinable"
    /\ stopPc' = IF worker_ = "joinable" THEN "stop_join" ELSE "stop_flush"
    /\ UNCHANGED <<running_, exitRequested_, portDirty_, portHandle_, queueVars,
                   worker_, workerVars, startPc, hidVars, micVars, deviceOk,
                   terminated, nextId, histVars>>
    /\ UNCHANGED beyondStreamer

\* stop(), line 1516: worker_.join() returns once workerLoop has returned
StopJoin ==
    /\ ~terminated
    /\ stopPc = "stop_join"
    /\ wpc = "done"
    /\ worker_' = "empty"
    /\ wpc' = "none"
    /\ stopPc' = "stop_flush"
    /\ UNCHANGED <<running_, exitRequested_, portDirty_, portHandle_, queueVars,
                   packet, handle, offset, ioResult, startPc, hidVars, micVars,
                   deviceOk, terminated, nextId, histVars>>
    /\ UNCHANGED beyondStreamer

\* stop(), lines 1519-1522: flushQueueLocked(); closeDeviceLocked(); return
StopFlush ==
    /\ ~terminated
    /\ stopPc = "stop_flush"
    /\ SetQueues(flushQueueLocked)
    /\ portHandle_' = closeDeviceLocked
    /\ stopPc' = "idle"
    /\ stopReturned' = TRUE
    /\ UNCHANGED <<running_, exitRequested_, portDirty_, worker_, workerVars,
                   startPc, hidVars, micVars, deviceOk, terminated, nextId,
                   outage, dirtyPass>>
    /\ UNCHANGED beyondStreamer

\* requestReconnect(), lines 1524-1529
RequestReconnect ==
    /\ ~terminated
    /\ portDirty_' = TRUE
    /\ UNCHANGED <<running_, exitRequested_, portHandle_, queueVars, worker_,
                   workerVars, startPc, stopPc, hidVars, micVars, deviceOk,
                   terminated, nextId, histVars>>
    /\ UNCHANGED beyondStreamer

\* the bridge is plugged in or pulled out
DeviceChange ==
    /\ ~terminated
    /\ deviceOk' = ~deviceOk
    /\ UNCHANGED <<running_, exitRequested_, portDirty_, portHandle_, queueVars,
                   worker_, workerVars, startPc, stopPc, hidVars, micVars,
                   terminated, nextId, histVars>>
    /\ UNCHANGED beyondStreamer

\* ------------------------------------------------------ the publish* calls
Min(a, b) == IF a < b THEN a ELSE b

\* chunks the while loop of publishMicrophoneSamples still has to go through
ChunksLeft(n) == (n + maxChunk - 1) \div maxChunk

\* frames the calls in progress may still build
Reserved ==
    (IF hpc = "idle" THEN 0 ELSE 1) + (IF mpc = "idle" THEN 0 ELSE ChunksLeft(remaining))

\* the frame enqueuePacket builds next
NewPacket(type, len) == [id |-> nextId + 1, type |-> type, len |-> len]

\* the locked part of enqueuePacket (lines 1633-1651) on the model's state
EnqueuePacketLocked(type, len) ==
    /\ SetQueues(enqueueLocked(Queues, NewPacket(type, len)))
    /\ nextId' = nextId + 1

\* whether publish*Report goes on to the locked part of enqueuePacket: the
\* isRunning() tests of lines 1563/1573/1583 and of line 1626 follow each
\* other with nothing in between, and are one read here
reportProceeds == running_

\* publishKeyboardReport / publishMouseReport / publishMouseAbsoluteReport
\* up to the lock of enqueuePacket
PublishReport(type) ==
    /\ ~terminated
    /\ hpc = "idle"
    /\ nextId + Reserved + 1 <= MaxFrames
    /\ IF reportProceeds
       THEN /\ hpc' = "enqueue_lock"
            /\ htype' = type
       ELSE UNCHANGED hidVars
    /\ UNCHANGED <<running_, exitRequested_, portDirty_, portHandle_, queueVars,
                   worker_, workerVars, startPc, stopPc, micVars, deviceOk,
                   terminated, nextId, histVars>>
    /\ UNCHANGED beyondStreamer

\* enqueuePacket, lines 1631-1651, for a report
ReportEnqueueLocked ==
    /\ ~terminated
    /\ hpc = "enqueue_lock"
    /\ EnqueuePacketLocked(htype, PayloadSize(htype))
    /\ hpc' = "idle"
    /\ htype' = "none"
    /\ UNCHANGED <<running_, exitRequested_, portDirty_, portHandle_, worker_,
                   workerVars, startPc, stopPc, micVars, deviceOk, terminated,
                   histVars>>
    /\ UNCHANGED beyondStreamer

\* the readiness test of publishMicrophoneSamples, line 1600
serialReady == portHandle_ # INVALID_HANDLE_VALUE /\ ~portDirty_

\* publishMicrophoneSamples, lines 1592-1595, for non-null data and
\* byteCount > 0: the isRunning() test
PublishMicrophone(byteCount) ==
    /\ ~terminated
    /\ mpc = "idle"
    /\ nextId + Reserved + ChunksLeft(byteCount) <= MaxFrames
    /\ IF running_
       THEN /\ mpc' = "ready"
            /\ remaining' = byteCount
            /\ UNCHANGED micRunning
       ELSE UNCHANGED micVars
    /\ UNCHANGED <<running_, exitRequested_, portDirty_, portHandle_, queueVars,
                   worker_, workerVars, startPc, stopPc, hidVars, deviceOk,
                   terminated, nextId, histVars>>
    /\ UNCHANGED beyondStreamer

\* publishMicrophoneSamples, lines 1597-1605: serialReady read under the lock
MicReadReady ==
    /\ ~terminated
    /\ mpc = "ready"
    /\ IF serialReady
       THEN /\ mpc' = "running"
            /\ UNCHANGED <<remaining, micRunning>>
       ELSE /\ mpc' = "idle"
            /\ remaining' = 0
            /\ UNCHANGED micRunning
    /\ UNCHANGED <<running_, exitRequested_, portDirty_, portHandle_, queueVars,
                   worker_, workerVars, startPc, stopPc, hidVars, deviceOk,
                   terminated, nextId, histVars>>
    /\ UNCHANGED beyondStreamer

\* publishMicrophoneSamples, line 1607: const bool running = isRunning();
MicReadRunning ==
    /\ ~terminated
    /\ mpc = "running"
    /\ micRunning' = running_
    /\ mpc' = "loop"
    /\ UNCHANGED <<running_, exitRequested_, portDirty_, portHandle_, queueVars,
                   worker_, workerVars, startPc, stopPc, hidVars, remaining,
                   deviceOk, terminated, nextId, histVars>>
    /\ UNCHANGED beyondStreamer

\* what is left after the chunk at hand, and where the loop goes then
MicAdvance ==
    /\ remaining' = remaining - Min(remaining, maxChunk)
    /\ mpc' = IF remaining - Min(remaining, maxChunk) = 0 THEN "idle" ELSE "loop"
    /\ micRunning' = IF remaining - Min(remaining, maxChunk) = 0 THEN FALSE ELSE micRunning

\* one round of the while loop, lines 1611-1621, up to enqueuePacket's
\* isRunning() test (line 1626): the chunk is skipped when either is false
MicChunk ==
    /\ ~terminated
    /\ mpc = "loop"
    /\ IF micRunning /\ running_
       THEN /\ mpc' = "enqueue_lock"
            /\ UNCHANGED <<remaining, micRunning>>
       ELSE MicAdvance
    /\ UNCHANGED <<running_, exitRequested_, portDirty_, portHandle_, queueVars,
                   worker_, workerVars, startPc, stopPc, hidVars, deviceOk,
                   terminated, nextId, histVars>>
    /\ UNCHANGED beyondStreamer

\* enqueuePacket, lines 1631-1651, for a microphone chunk
MicEnqueueLocked ==
    /\ ~terminated
    /\ mpc = "enqueue_lock"
    /\ EnqueuePacketLocked("Microphone", Min(remaining, maxChunk))
    /\ MicAdvance
    /\ UNCHANGED <<running_, exitRequested_, portDirty_, portHandle_, worker_,
                   workerVars, startPc, stopPc, hidVars, deviceOk, terminated,
                   histVars>>
    /\ UNCHANGED beyondStreamer

\* ------------------------------------------------------------- workerLoop
WorkerAlive == wpc \notin {"none", "done"}

\* variant of the wait predicate that does not look at exitRequested_
WorkerWakeOnWork == portDirty_ \/ totalQueued_ > 0

\* the predicate of cv_.wait, line 1695
WorkerWake == exitRequested_ \/ portDirty_ \/ totalQueued_ > 0

\* the worker's locals at the top of the while (true) loop
WorkerNextIteration ==
    /\ wpc' = "wait"
    /\ packet' = NoPacket
    /\ handle' = INVALID_HANDLE_VALUE
    /\ offset' = 0
    /\ ioResult' = "none"

\* lines 1698-1701: exitRequested_ breaks out of the loop
WorkerExitRequested ==
    /\ ~terminated
    /\ wpc = "wait"
    /\ WorkerWake
    /\ exitRequested_
    /\ wpc' = "exit"
    /\ dirtyPass' = NoPass
    /\ UNCHANGED <<running_, exitRequested_, portDirty_, portHandle_, queueVars,
                   worker_, packet, handle, offset, ioResult, startPc, stopPc,
                   hidVars, micVars, deviceOk, terminated, nextId, stopReturned,
                   outage>>
    /\ UNCHANGED beyondStreamer

\* lines 1817-1821: flush and close on the way out
WorkerShutdown ==
    /\ ~terminated
    /\ wpc = "exit"
    /\ SetQueues(flushQueueLocked)
    /\ portHandle_' = closeDeviceLocked
    /\ wpc' = "done"
    /\ UNCHANGED <<running_, exitRequested_, portDirty_, worker_, packet, handle,
                   offset, ioResult, startPc, stopPc, hidVars, micVars, deviceOk,
                   terminated, nextId, histVars>>
    /\ UNCHANGED beyondStreamer

\* variant of the dirty branch that closes and never opens
reconnectNever(q, ok) ==
    [queues |-> flushQueueLocked,
     handle |-> closeDeviceLocked,
     dirty |-> TRUE]

\* variant of the dirty branch that keeps the queued frames
reconnectKeepingFrames(q, ok) ==
    [queues |-> q,
     handle |-> openDeviceLocked(closeDeviceLocked, ok),
     dirty |-> openDeviceLocked(closeDeviceLocked, ok) = INVALID_HANDLE_VALUE]

\* variant of the dirty branch that leaves the flag clear after a failed open
reconnectOnce(q, ok) ==
    [queues |-> flushQueueLocked,
     handle |-> openDeviceLocked(closeDeviceLocked, ok),
     dirty |-> FALSE]

\* lines 1703-1715, the dirty branch: close, flush, clear the flag, open; a
\* failed open sets the flag again.  The queues, the handle and the flag
\* afterwards.
reconnectLocked(q, ok) ==
    [queues |-> flushQueueLocked,
     handle |-> openDeviceLocked(closeDeviceLocked, ok),
     dirty |-> openDeviceLocked(closeDeviceLocked, ok) = INVALID_HANDLE_VALUE]

\* lines 1717-1745: nothing when the queues are empty, else the front of the
\* first non-empty queue is popped and counted off.  The queues and the
\* packet afterwards.
dequeueLocked(q) ==
    IF q.mouse = <<>> /\ q.keyboard = <<>> /\ q.microphone = <<>>
    THEN [queues |-> q, packet |-> NoPacket]
    ELSE [queues |-> [q EXCEPT ![dequeueFrom(q)] = Tail(@),
                               !.total = IF @ > 0 THEN @ - 1 ELSE @],
          packet |-> Head(q[dequeueFrom(q)])]

\* lines 1703-1711 with openDeviceLocked failing
WorkerReconnectFailed ==
    /\ ~terminated
    /\ wpc = "wait"
    /\ WorkerWake
    /\ ~exitRequested_
    /\ portDirty_
    /\ reconnectLocked(Queues, deviceOk).dirty
    /\ SetQueues(reconnectLocked(Queues, deviceOk).queues)
    /\ portHandle_' = reconnectLocked(Queues, deviceOk).handle
    /\ portDirty_' = TRUE
    /\ wpc' = "sleep250"
    /\ dirtyPass' = [cause |-> outage.cause, discarded |-> QueuedCount(Queues),
                     opened |-> FALSE, retry |-> ~dirtyPass.opened]
    /\ UNCHANGED <<running_, exitRequested_, worker_, packet, handle, offset,
                   ioResult, startPc, stopPc, hidVars, micVars, deviceOk,
                   terminated, nextId, stopReturned, outage>>
    /\ UNCHANGED beyondStreamer

\* the rest of the locked region, lines 1717-1745, from queues q
WorkerTake(q) ==
    /\ SetQueues(dequeueLocked(q).queues)
    /\ packet' = dequeueLocked(q).packet
    /\ wpc' = IF dequeueLocked(q).packet = NoPacket THEN "wait" ELSE "handle"
    /\ UNCHANGED <<handle, offset, ioResult>>

\* lines 1703-1745 with openDeviceLocked succeeding
WorkerReconnected ==
    /\ ~terminated
    /\ wpc = "wait"
    /\ WorkerWake
    /\ ~exitRequested_
    /\ portDirty_
    /\ ~reconnectLocked(Queues, deviceOk).dirty
    /\ portHandle_' = reconnectLocked(Queues, deviceOk).handle
    /\ portDirty_' = FALSE
    /\ WorkerTake(reconnectLocked(Queues, deviceOk).queues)
    /\ outage' = NoOutage
    /\ dirtyPass' = [cause |-> outage.cause, discarded |-> QueuedCount(Queues),
                     opened |-> TRUE, retry |-> ~dirtyPass.opened]
    /\ UNCHANGED <<running_, exitRequested_, worker_, startPc, stopPc, hidVars,
                   micVars, deviceOk, terminated, nextId, stopReturned>>
    /\ UNCHANGED beyondStreamer

\* lines 1717-1745 with the flag clear
WorkerDequeue ==
    /\ ~terminated
    /\ wpc = "wait"
    /\ WorkerWake
    /\ ~exitRequested_
    /\ ~portDirty_
    /\ WorkerTake(Queues)
    /\ dirtyPass' = NoPass
    /\ UNCHANGED <<running_, exitRequested_, portDirty_, portHandle_, worker_,
                   startPc, stopPc, hidVars, micVars, deviceOk, terminated,
                   nextId, stopReturned, outage>>
    /\ UNCHANGED beyondStreamer

\* whether the worker goes on to WriteFile with the handle it read, line 1753
handleUsable(h) == h # INVALID_HANDLE_VALUE

\* lines 1747-1754: copy portHandle_ under the lock; with an invalid handle
\* the packet is dropped
WorkerReadHandle ==
    /\ ~terminated
    /\ wpc = "handle"
    /\ IF handleUsable(portHandle_)
       THEN /\ wpc' = "write"
            /\ handle' = portHandle_
            /\ UNCHANGED <<packet, offset, ioResult>>
       ELSE /\ wpc' = "sleep100"
            /\ packet' = NoPacket
            /\ UNCHANGED <<handle, offset, ioResult>>
    /\ UNCHANGED <<running_, exitRequested_, portDirty_, portHandle_, queueVars,
                   worker_, startPc, stopPc, hidVars, micVars, deviceOk,
                   terminated, nextId, histVars>>
    /\ UNCHANGED beyondStreamer

\* lines 1712-1713 and 1755-1756: sleep_for(...); continue;
WorkerSleep ==
    /\ ~terminated
    /\ wpc \in {"sleep250", "sleep100"}
    /\ wpc' = "wait"
    /\ UNCHANGED <<running_, exitRequested_, portDirty_, portHandle_, queueVars,
                   worker_, packet, handle, offset, ioResult, startPc, stopPc,
                   hidVars, micVars, deviceOk, terminated, nextId, histVars>>
    /\ UNCHANGED beyondStreamer

\* the byte counts a successful WriteFile of `left` bytes reports when it
\* wrote anything: all of them, or all but one
WrittenChoices(left) == {left} \cup (IF left > 1 THEN {left - 1} ELSE {})

\* lines 1763-1767: WriteFile returns FALSE.  It always does on a handle that
\* stop() has closed since the worker read it.
WriteFileFails ==
    /\ ~terminated
    /\ wpc = "write"
    /\ wpc' = "wrote"
    /\ ioResult' = "WriteFile failed"
    /\ UNCHANGED <<running_, exitRequested_, portDirty_, portHandle_, queueVars,
                   worker_, packet, handle, offset, startPc, stopPc, hidVars,
                   micVars, deviceOk, terminated, nextId, histVars>>
    /\ UNCHANGED beyondStreamer

\* lines 1763-1778: WriteFile returns TRUE with written == 0
WriteFileZero ==
    /\ ~terminated
    /\ wpc = "write"
    /\ portHandle_ # INVALID_HANDLE_VALUE
    /\ wpc' = "wrote"
    /\ ioResult' = "written == 0"
    /\ UNCHANGED <<running_, exitRequested_, portDirty_, portHandle_, queueVars,
                   worker_, packet, handle, offset, startPc, stopPc, hidVars,
                   micVars, deviceOk, terminated, nextId, histVars>>
    /\ UNCHANGED beyondStreamer

\* lines 1763-1797: WriteFile writes `written` > 0 bytes, offset += written,
\* then ClearCommError fails ("ClearCommError failed"), reports a backlog
\* above kSerialBacklogThresholdBytes ("backlog") or neither ("ok")
WriteFileWrites(written, status) ==
    /\ ~terminated
    /\ wpc = "write"
    /\ portHandle_ # INVALID_HANDLE_VALUE
    /\ wpc' = "wrote"
    /\ offset' = offset + written
    /\ ioResult' = status
    /\ UNCHANGED <<running_, exitRequested_, portDirty_, portHandle_, queueVars,
                   worker_, packet, handle, startPc, stopPc, hidVars, micVars,
                   deviceOk, terminated, nextId, histVars>>
    /\ UNCHANGED beyondStreamer

IoErrors == {"WriteFile failed", "ClearCommError failed", "backlog"}

\* variant of the error branches that closes without marking dirty
closeOnly == [handle |-> closeDeviceLocked, dirty |-> FALSE]

\* what the three error branches (lines 1771-1775, 1790-1794, 1800-1805) do
\* to the handle and the dirty flag
closeAndMarkDirty == [handle |-> closeDeviceLocked, dirty |-> TRUE]

\* lines 1768-1776, 1787-1806: an error closes the port under the lock, marks
\* it dirty and breaks out of the write loop
WorkerIoError ==
    /\ ~terminated
    /\ wpc = "wrote"
    /\ ioResult \in IoErrors
    /\ portHandle_' = closeAndMarkDirty.handle
    /\ portDirty_' = closeAndMarkDirty.dirty
    /\ WorkerNextIteration
    /\ outage' = [since |-> nextId, cause |-> ioResult]
    /\ UNCHANGED <<running_, exitRequested_, queueVars, worker_, startPc, stopPc,
                   hidVars, micVars, deviceOk, terminated, nextId, stopReturned,
                   dirtyPass>>
    /\ UNCHANGED beyondStreamer

\* lines 1778-1781 and 1760: written == 0 breaks out of the write loop, and
\* so does offset reaching packet.size(); otherwise WriteFile is called again
WorkerIoDone ==
    /\ ~terminated
    /\ wpc = "wrote"
    /\ ioResult \notin IoErrors
    /\ IF ioResult = "ok" /\ offset < PacketSize(packet)
       THEN /\ wpc' = "write"
            /\ ioResult' = "none"
            /\ UNCHANGED <<packet, handle, offset>>
       ELSE WorkerNextIteration
    /\ UNCHANGED <<running_, exitRequested_, portDirty_, portHandle_, queueVars,
                   worker_, startPc, stopPc, hidVars, micVars, deviceOk,
                   terminated, nextId, histVars>>
    /\ UNCHANGED beyondStreamer

WorkerNext ==
    \/ WorkerExitRequested
    \/ WorkerShutdown
    \/ WorkerReconnectFailed
    \/ WorkerReconnected
    \/ WorkerDequeue
    \/ WorkerReadHandle
    \/ WorkerSleep
    \/ WriteFileFails
    \/ WriteFileZero
    \/ \E written \in WrittenChoices(PacketSize(packet) - offset) :
          \E status \in {"ok", "ClearCommError failed", "backlog"} :
             WriteFileWrites(written, status)
    \/ WorkerIoError
    \/ WorkerIoDone

\* start() and stop() called from one and the same thread (Application's
\* UI thread): neither is entered while the other is in progress
UiStart ==
    /\ stopPc = "idle"
    /\ StartCall

UiStop ==
    /\ startPc = "idle"
    /\ StopCall

LifecycleSteps ==
    \/ StartLocked
    \/ StartSpawn
    \/ StopLocked
    \/ StopJoinable
    \/ StopJoin
    \/ StopFlush

PublishNext ==
    \/ \E type \in HidTypes : PublishReport(type)
    \/ ReportEnqueueLocked
    \/ \E byteCount \in MicByteCounts : PublishMicrophone(byteCount)
    \/ MicReadReady
    \/ MicReadRunning
    \/ MicChunk
    \/ MicEnqueueLocked

\* the streamer driven as Application drives it: one thread starts and stops
\* it, the hook thread and the audio thread publish, anyone reconfigures
Next ==
    \/ WorkerNext
    \/ UiStart
    \/ UiStop
    \/ LifecycleSteps
    \/ RequestReconnect
    \/ PublishNext
    \/ DeviceChange

Spec == Init /\ [][Next]_vars

\* start() and stop() called from two threads, so that the two calls
\* overlap, with the hook thread publishing and anyone reconfiguring (the
\* audio thread is left out: it shares no state with start() and stop()
\* that the hook thread does not)
NextOverlap ==
    \/ WorkerNext
    \/ StartCall
    \/ StopCall
    \/ LifecycleSteps
    \/ RequestReconnect
    \/ \E type \in HidTypes : PublishReport(type)
    \/ ReportEnqueueLocked
    \/ DeviceChange

SpecOverlap == Init /\ [][NextOverlap]_vars

\* the scheduler runs the worker thread whenever it can take a step
FairSpec == Spec /\ WF_vars(WorkerNext)

\* ------------------------------------------------- steps, as seen from outside
\* a step of the worker through the dirty branch (lines 1703-1715): of the
\* steps from such a state only the worker's move it on or clear the flag
DirtyIteration ==
    /\ wpc = "wait"
    /\ portDirty_
    /\ ~exitRequested_
    /\ wpc' # wpc \/ ~portDirty_'
    /\ ~terminated'

\* a step that pushes a newly built frame (the locked part of enqueuePacket)
EnqueueStep == nextId' = nextId + 1

\* the type of the frame an EnqueueStep pushes
EnqueuedType == IF hpc' # hpc THEN htype ELSE "Microphone"

\* frames a step removes from the queues without handing them to the worker
Dropped ==
    (QueuedIds(Queues) \cup {nextId'}) \ (QueuedIds(Queues') \cup {0, packet'.id})

\* ---------------------------------------------------------------- claims
\* C1: after every operation the mouse, keyboard and microphone queues hold
\* at most kMaxQueuedPackets frames together.
C1_QueueCap == QueuedCount(Queues) <= kMaxQueuedPackets

\* C1 witness: the queues are full and a frame younger than a queued mouse
\* frame is gone; the worker takes mouse frames first and in order, so that
\* frame was trimmed.
C1_Witness ==
    /\ QueuedCount(Queues) = kMaxQueuedPackets
    /\ \E i \in Ids(mouseQueue_) : \E j \in (i + 1)..nextId :
          j \notin QueuedIds(Queues) /\ packet.id # j

\* C2: every frame a trim removes is the oldest frame of the microphone
\* queue if there is one, else the oldest of the keyboard queue, else the
\* oldest of the mouse queue: no mouse frame is dropped while a keyboard or
\* microphone frame is queued, no keyboard frame while a microphone frame is.
C2_TrimOrder ==
    [][EnqueueStep =>
         LET pushed == [Queues EXCEPT ![IF EnqueuedType \in {"Mouse", "MouseAbsolute"}
                                         THEN "mouse"
                                         ELSE IF EnqueuedType = "Keyboard"
                                              THEN "keyboard" ELSE "microphone"] =
                                           Append(@, [id |-> nextId', type |-> EnqueuedType,
                                                      len |-> 0])]
         IN \A d \in Dropped :
               /\ d \in Ids(pushed.mouse) =>
                     /\ pushed.keyboard = <<>> /\ pushed.microphone = <<>>
                     /\ d = Head(pushed.mouse).id
               /\ d \in Ids(pushed.keyboard) =>
                     /\ pushed.microphone = <<>>
                     /\ d = Head(pushed.keyboard).id
               /\ d \in Ids(pushed.microphone) => d = Head(pushed.microphone).id
      ]_vars

\* C2 witness: a mouse and a keyboard frame are queued at the cap and the
\* youngest frame built is gone.  It was pushed behind them, and the worker
\* would have taken the mouse frame first, so the trim dropped it.
C2_Witness ==
    /\ mouseQueue_ # <<>>
    /\ keyboardQueue_ # <<>>
    /\ QueuedCount(Queues) = kMaxQueuedPackets
    /\ nextId > 0
    /\ nextId \notin QueuedIds(Queues)
    /\ packet.id # nextId
    /\ \A i \in QueuedIds(Queues) : i < nextId

\* C3: whenever the worker dequeues, it takes the front of the mouse queue
\* if that queue is non-empty, else the front of the keyboard queue, else
\* the front of the microphone queue.
C3_DequeuePriority ==
    [][(wpc = "wait" /\ wpc' = "handle") =>
         /\ mouseQueue_ # <<>> =>
               /\ packet' = Head(mouseQueue_)
               /\ mouseQueue_' = Tail(mouseQueue_)
               /\ UNCHANGED <<keyboardQueue_, microphoneQueue_>>
         /\ (mouseQueue_ = <<>> /\ keyboardQueue_ # <<>>) =>
               /\ packet' = Head(keyboardQueue_)
               /\ keyboardQueue_' = Tail(keyboardQueue_)
               /\ UNCHANGED <<mouseQueue_, microphoneQueue_>>
         /\ (mouseQueue_ = <<>> /\ keyboardQueue_ = <<>>) =>
               /\ microphoneQueue_ # <<>>
               /\ packet' = Head(microphoneQueue_)
               /\ microphoneQueue_' = Tail(microphoneQueue_)
               /\ UNCHANGED <<mouseQueue_, keyboardQueue_>>
      ]_vars

\* C3 witness: the worker holds a mouse frame it has just dequeued while an
\* older keyboard frame is still queued.
C3_Witness ==
    /\ wpc = "handle"
    /\ packet.type \in {"Mouse", "MouseAbsolute"}
    /\ keyboardQueue_ # <<>>
    /\ Head(keyboardQueue_).id < packet.id

\* the step in which the worker reopens the port after an I/O error closed it
ReopenAfterError ==
    /\ DirtyIteration
    /\ outage # NoOutage
    /\ portHandle_' # INVALID_HANDLE_VALUE

\* frames enqueued since the I/O error that are still queued
OutageFrames == {i \in QueuedIds(Queues) : i > outage.since}

\* C4 as stated: from a write failure until the reopen the worker writes
\* nothing, and the frames enqueued during the outage are still queued (or
\* are the frame the worker takes) when the port is reopened.
C4_OutageFramesPreserved ==
    /\ [](outage # NoOutage => wpc \notin {"handle", "write", "wrote"})
    /\ [][ReopenAfterError =>
            OutageFrames \subseteq (QueuedIds(Queues') \cup {packet'.id})]_vars

\* C4 amended: from an I/O error until the reopen the port stays closed and
\* dirty and the worker writes nothing; the pass that reopens the port
\* discards every queued frame, those enqueued during the outage included,
\* and takes no frame.
C4_OutageFramesDiscarded ==
    /\ [](outage # NoOutage =>
            /\ wpc \notin {"handle", "write", "wrote"}
            /\ portHandle_ = INVALID_HANDLE_VALUE
            /\ portDirty_)
    /\ [][ReopenAfterError =>
            /\ QueuedIds(Queues') = {}
            /\ totalQueued_' = 0
            /\ packet' = NoPacket]_vars

\* C4 witness: the port is open again after a failed WriteFile, and the pass
\* that reopened it discarded frames.
C4_Witness ==
    /\ dirtyPass.cause = "WriteFile failed"
    /\ dirtyPass.discarded > 0
    /\ portHandle_ # INVALID_HANDLE_VALUE
    /\ ~portDirty_
    /\ outage = NoOutage

\* C5: once a stop() call has returned and no start() was called after it,
\* the worker thread has exited and the port is closed, so that nothing is
\* opened or written any more.
C5_StoppedIsQuiet ==
    stopReturned => (~WorkerAlive /\ portHandle_ = INVALID_HANDLE_VALUE)

\* C6: a pass of the worker through the dirty branch leaves all three queues
\* empty and the counter at 0 and takes no frame; when the device can be
\* opened the port is open and the flag clear afterwards, when it cannot the
\* port is closed, the flag is set again and the worker goes to sleep.
C6_DirtyBranch ==
    [][DirtyIteration =>
         /\ mouseQueue_' = <<>>
         /\ keyboardQueue_' = <<>>
         /\ microphoneQueue_' = <<>>
         /\ totalQueued_' = 0
         /\ packet' = NoPacket
         /\ IF deviceOk
            THEN portHandle_' # INVALID_HANDLE_VALUE /\ ~portDirty_' /\ wpc' = "wait"
            ELSE portHandle_' = INVALID_HANDLE_VALUE /\ portDirty_' /\ wpc' = "sleep250"
      ]_vars

\* C6 witness: the worker sleeps after a pass through the dirty branch that
\* discarded frames and failed to open the port.
C6_Witness ==
    /\ wpc = "sleep250"
    /\ dirtyPass.discarded > 0
    /\ portDirty_
    /\ portHandle_ = INVALID_HANDLE_VALUE
    /\ QueuedCount(Queues) = 0

\* C7: after WriteFile has failed, the worker's next step closes the port and
\* marks it dirty, drops the frame it was writing and goes back to the top of
\* its loop without touching the queues; and a frame enters a queue only
\* when it is newly built, and the worker's frame only comes out of a queue,
\* so the abandoned frame is never queued or written again.
C7_WriteErrorAbandonsFrame ==
    /\ [](\A i \in QueuedIds(Queues) \cup {packet.id} : i <= nextId)
    /\ [][/\ (wpc = "wrote" /\ ioResult = "WriteFile failed" /\ wpc' # wpc /\ ~terminated') =>
               /\ portHandle_' = INVALID_HANDLE_VALUE
               /\ portDirty_'
               /\ packet' = NoPacket
               /\ offset' = 0
               /\ wpc' = "wait"
               /\ packet.id \notin QueuedIds(Queues')
          /\ ~terminated' =>
               /\ nextId' >= nextId
               /\ (QueuedIds(Queues') \ QueuedIds(Queues)) \subseteq {nextId + 1}
               /\ (packet' # packet /\ packet' # NoPacket) => packet'.id \in QueuedIds(Queues)
      ]_vars

\* C7 witness: the port is closed and dirty after a WriteFile that failed
\* part way through a frame (frames were written before: the failed one is
\* the worker's, and it is gone).
C7_Witness ==
    /\ outage.cause = "WriteFile failed"
    /\ portHandle_ = INVALID_HANDLE_VALUE
    /\ portDirty_
    /\ wpc = "wait"
    /\ packet = NoPacket

\* C8: while the worker runs, a closed port has the dirty flag set (so the
\* open is tried again at the next pass, after a failed one included); the
\* worker writes only with the port open; and, the worker thread being
\* scheduled fairly, a set dirty flag leads to an open port with the flag
\* clear unless the device stops being openable or stop() asks the worker
\* to exit.
C8_RetriesUntilOpen ==
    /\ []((WorkerAlive /\ wpc # "exit" /\ portHandle_ = INVALID_HANDLE_VALUE) => portDirty_)
    /\ [](wpc = "sleep250" => (portDirty_ /\ portHandle_ = INVALID_HANDLE_VALUE))
    /\ [](wpc \in {"write", "wrote"} =>
            (portHandle_ # INVALID_HANDLE_VALUE /\ handle = portHandle_))
    /\ (WorkerAlive /\ portDirty_ /\ deviceOk) ~>
          \/ portHandle_ # INVALID_HANDLE_VALUE /\ ~portDirty_
          \/ ~deviceOk
          \/ exitRequested_
          \/ ~WorkerAlive

\* C8 witness: the streamer runs with the port open and the flag clear after
\* a pass through the dirty branch that followed one whose open had failed.
C8_Witness ==
    /\ dirtyPass.retry
    /\ dirtyPass.opened
    /\ portHandle_ # INVALID_HANDLE_VALUE
    /\ ~portDirty_
    /\ running_
    /\ WorkerAlive

\* the queue a report of the call in progress belongs to
MatchingQueue ==
    IF htype = "Keyboard" THEN "keyboard"
    ELSE IF htype \in {"Mouse", "MouseAbsolute"} THEN "mouse"
    ELSE "none"

\* the queues with the report of the call in progress pushed on its queue
WithReport ==
    [Queues EXCEPT ![MatchingQueue] =
                      Append(@, [id |-> nextId + 1, type |-> htype,
                                 len |-> PayloadSize(htype)]),
                   !.total = @ + 1]

\* C9: a publish*Report call goes on to enqueue only when it found the
\* streamer running and otherwise changes nothing; the enqueue pushes
\* exactly one frame, of the call's type and payload size, on the keyboard
\* queue for a keyboard report and on the mouse queue for a relative or
\* absolute mouse report, and changes nothing else, except that at the cap
\* the front of one queue makes room for it.
C9_ReportEnqueuesOne ==
    [][/\ (hpc = "idle" /\ hpc' # hpc) =>
             (running_ /\ UNCHANGED <<queueVars, portHandle_, portDirty_, nextId>>)
       /\ (hpc = "enqueue_lock" /\ hpc' # hpc /\ ~terminated') =>
             /\ MatchingQueue # "none"
             /\ nextId' = nextId + 1
             /\ UNCHANGED <<portHandle_, portDirty_, running_>>
             /\ IF QueuedCount(Queues) < kMaxQueuedPackets
                THEN Queues' = WithReport
                ELSE \E n \in {"mouse", "keyboard", "microphone"} :
                        /\ WithReport[n] # <<>>
                        /\ Queues' = [WithReport EXCEPT ![n] = Tail(@), !.total = @ - 1]
      ]_vars

\* C9 witness: a keyboard report sits in the keyboard queue and an absolute
\* mouse report in the mouse queue.
C9_Witness ==
    /\ \E i \in 1..Len(keyboardQueue_) : keyboardQueue_[i].type = "Keyboard"
    /\ \E i \in 1..Len(mouseQueue_) : mouseQueue_[i].type = "MouseAbsolute"

\* C10: a microphone frame is added to the microphone queue only while the
\* port is open and the configuration is not dirty.
C10_MicOnlyWhenReady ==
    [][Ids(microphoneQueue_') \ Ids(microphoneQueue_) # {} => serialReady]_vars

\* ------------------------------------------------------------ buildPacket
kFrameSync0 == 213
kFrameSync1 == 170

\* enum class PacketType : std::uint8_t
PacketTypeByte(type) ==
    CASE type = "Keyboard" -> 1
      [] type = "Mouse" -> 2
      [] type = "Microphone" -> 3
      [] type = "MouseAbsolute" -> 4

\* variant of buildPacket with the length low byte first
buildPacketLittleEndian(type, payload) ==
    LET cappedSize == Min(Len(payload), 65535)
    IN <<kFrameSync0, kFrameSync1, PacketTypeByte(type),
         cappedSize % 256, (cappedSize \div 256) % 256>>
       \o SubSeq(payload, 1, cappedSize)

\* buildPacket: sync word, type, the capped size high byte first, then that
\* many payload bytes
buildPacket(type, payload) ==
    LET cappedSize == Min(Len(payload), 65535)
    IN <<kFrameSync0, kFrameSync1, PacketTypeByte(type),
         (cappedSize \div 256) % 256, cappedSize % 256>>
       \o SubSeq(payload, 1, cappedSize)

\* the receiver of README.md, "Serial TLV Protocol": find the sync word,
\* read type and big-endian length, consume that many payload bytes
decodePacket(bytes) ==
    IF Len(bytes) < 5 \/ bytes[1] # 213 \/ bytes[2] # 170
       \/ Len(bytes) < 5 + bytes[4] * 256 + bytes[5]
    THEN [type |-> 0, payload |-> <<>>, rest |-> bytes]
    ELSE [type |-> bytes[3],
          payload |-> SubSeq(bytes, 6, 5 + bytes[4] * 256 + bytes[5]),
          rest |-> SubSeq(bytes, 6 + bytes[4] * 256 + bytes[5], Len(bytes))]

\* longest of the payloads enumerated byte by byte
MaxPayload == 2

\* bytes the enumerated payloads are made of: the sync bytes among them
SampleBytes == {0, 170, 213, 255}

RECURSIVE SeqsUpTo(_, _)
SeqsUpTo(S, n) ==
    IF n = 0 THEN {<<>>}
    ELSE SeqsUpTo(S, n - 1)
         \cup {Append(q, b) : q \in {x \in SeqsUpTo(S, n - 1) : Len(x) = n - 1}, b \in S}

\* a buffer of n bytes
Buffer(n) == [i \in 1..n |-> (i * 7) % 256]

\* the payloads handed to buildPacket: the short ones, and buffers around
\* the one-byte and two-byte limits of the length field
Payloads ==
    SeqsUpTo(SampleBytes, MaxPayload)
    \cup {Buffer(n) : n \in {255, 256, 257, 65535, 65536}}

BuildPacketCalls ==
    {[fn |-> "buildPacket", type |-> t, payload |-> p] : t \in PacketTypes, p \in Payloads}

InitBuildPacket ==
    /\ StreamerInit
    /\ InputIdle
    /\ call \in BuildPacketCalls
    /\ result = NoResult

ApplyBuildPacket ==
    /\ call.fn = "buildPacket"
    /\ result = NoResult
    /\ result' = buildPacket(call.type, call.payload)
    /\ UNCHANGED <<streamerVars, configVars, inputVars, call>>

SpecBuildPacket == InitBuildPacket /\ [][ApplyBuildPacket]_vars

\* C12: for each of the four frame types and every payload of at most 65535
\* bytes, buildPacket returns 0xD5 0xAA, the type byte (1 keyboard, 2 mouse,
\* 3 microphone, 4 absolute mouse), the payload length high byte first, then
\* the payload; the receiver decodes it to the same type and payload with
\* nothing left over.
C12_FrameRoundTrip ==
    (call.fn = "buildPacket" /\ result # NoResult /\ Len(call.payload) <= 65535) =>
        LET typeByte == IF call.type = "Keyboard" THEN 1
                        ELSE IF call.type = "Mouse" THEN 2
                        ELSE IF call.type = "Microphone" THEN 3
                        ELSE 4
        IN /\ Len(result) = 5 + Len(call.payload)
           /\ result[1] = 213
           /\ result[2] = 170
           /\ result[3] = typeByte
           /\ result[4] \in 0..255
           /\ result[5] \in 0..255
           /\ result[4] * 256 + result[5] = Len(call.payload)
           /\ \A i \in 1..Len(call.payload) : result[5 + i] = call.payload[i]
           /\ decodePacket(result) =
                 [type |-> typeByte, payload |-> call.payload, rest |-> <<>>]

\* C12 witness: buildPacket has returned the frame of a microphone payload
\* whose length needs both length bytes.
C12_Witness ==
    /\ call.fn = "buildPacket"
    /\ call.type = "Microphone"
    /\ Len(call.payload) = 257
    /\ result # NoResult

\* ------------------------------ publishMicrophoneSamples, from entry to return
\* variant of the chunk size that takes one byte at a time
chunkByte(left) == Min(left, 1)

\* line 1613: const std::size_t chunk = std::min(remaining, maxChunk);
chunkSize(left) == Min(left, maxChunk)

\* the while loop of lines 1611-1621 on queues q with nothing else running:
\* each round builds the frame of the chunk at the cursor and enqueuePacket
\* pushes it on the microphone queue, counts it and trims
RECURSIVE MicLoop(_, _, _, _)
MicLoop(q, data, cursor, left) ==
    IF left = 0 THEN q
    ELSE MicLoop(trimQueuesLocked(
                    [q EXCEPT !.microphone =
                                 Append(@, buildPacket("Microphone",
                                                      SubSeq(data, cursor + 1,
                                                             cursor + chunkSize(left)))),
                              !.total = @ + 1]),
                 data, cursor + chunkSize(left), left - chunkSize(left))

\* publishMicrophoneSamples(data, byteCount) on empty queues, start to end:
\* nothing when there is no data, the streamer is not running or the port is
\* not ready
publishMicrophoneSamples(data, running, ready) ==
    IF Len(data) = 0 \/ ~running \/ ~ready
    THEN flushQueueLocked
    ELSE MicLoop(flushQueueLocked, data, 0, Len(data))

\* the sizes of the buffers handed to publishMicrophoneSamples: up to as
\* many chunks as the queues hold
MicBufferSizes ==
    {0, 1, 2, 3, maxChunk - 1, maxChunk, maxChunk + 1, maxChunk + 2, 70000,
     kMaxQueuedPackets * maxChunk}

\* publishMicrophoneSamples(data, byteCount) with data pointing to Buffer(byteCount)
PublishMicrophoneCalls ==
    {[fn |-> "publishMicrophoneSamples", byteCount |-> n, running |-> r, ready |-> y] :
        n \in MicBufferSizes, r \in BOOLEAN, y \in BOOLEAN}

InitPublishMicrophone ==
    /\ StreamerInit
    /\ InputIdle
    /\ call \in PublishMicrophoneCalls
    /\ result = NoResult

ApplyPublishMicrophone ==
    /\ call.fn = "publishMicrophoneSamples"
    /\ result = NoResult
    /\ result' = publishMicrophoneSamples(Buffer(call.byteCount), call.running,
                                          call.ready).microphone
    /\ UNCHANGED <<streamerVars, configVars, inputVars, call>>

SpecPublishMicrophone == InitPublishMicrophone /\ [][ApplyPublishMicrophone]_vars

\* C11: publishing N bytes with the streamer running and the port ready
\* leaves ceil(N / 65535) frames of type 3 on the microphone queue, in the
\* order of the input; every frame but the last carries 65535 bytes, the
\* last the rest, and byte for byte the payloads are the input in order
\* (70000 bytes: two frames, of 65535 and 4465 bytes).
C11_MicrophoneChunking ==
    (call.fn = "publishMicrophoneSamples" /\ result # NoResult
     /\ call.running /\ call.ready) =>
        LET N == call.byteCount
            k == (N + 65534) \div 65535
        IN /\ Len(result) = k
           /\ \A i \in 1..k :
                 /\ result[i][3] = 3
                 /\ result[i][4] * 256 + result[i][5] = Len(result[i]) - 5
                 /\ Len(result[i]) - 5 = IF i < k THEN 65535 ELSE N - (k - 1) * 65535
                 /\ \A j \in 1..(Len(result[i]) - 5) :
                       result[i][5 + j] = Buffer(N)[(i - 1) * 65535 + j]
           /\ N = 70000 =>
                 (k = 2 /\ Len(result[1]) = 5 + 65535 /\ Len(result[2]) = 5 + 4465)

\* C11 witness: 70000 bytes were published to a running, ready streamer and
\* two frames are queued.
C11_Witness ==
    /\ call.fn = "publishMicrophoneSamples"
    /\ call.running
    /\ call.ready
    /\ call.byteCount = 70000
    /\ result # NoResult
    /\ Len(result) = 2

\* ------------------------ requestReconnect, setBaudRate, setPreferredPort
\* variant of the zero-rate replacement that takes the rate as given
baudRateAsGiven(baudRate) == baudRate

\* setBaudRate, lines 1533-1536: a zero rate is replaced by the default
effectiveBaudRate(baudRate) == IF baudRate = 0 THEN kDefaultBaudRate ELSE baudRate

\* the rates and port names the calls are made with
BaudRates == {0, 115200, kDefaultBaudRate}
PortNames == {"", "COM3"}

\* requestReconnect(), with the call on record
RequestReconnectCall ==
    /\ ~terminated
    /\ call' = [fn |-> "requestReconnect"]
    /\ portDirty_' = TRUE
    /\ UNCHANGED <<running_, exitRequested_, portHandle_, queueVars, worker_,
                   workerVars, startPc, stopPc, hidVars, micVars, deviceOk,
                   terminated, nextId, histVars, configVars, result, inputVars>>

\* setBaudRate(baudRate), lines 1531-1546
SetBaudRate(baudRate) ==
    /\ ~terminated
    /\ call' = [fn |-> "setBaudRate", baudRate |-> baudRate]
    /\ IF baudRate_ = effectiveBaudRate(baudRate)
       THEN UNCHANGED <<baudRate_, portDirty_>>
       ELSE /\ baudRate_' = effectiveBaudRate(baudRate)
            /\ portDirty_' = TRUE
    /\ UNCHANGED <<running_, exitRequested_, portHandle_, queueVars, worker_,
                   workerVars, startPc, stopPc, hidVars, micVars, deviceOk,
                   terminated, nextId, histVars, preferredPortName_, result, inputVars>>

\* setPreferredPort(portName), lines 1548-1558
SetPreferredPort(portName) ==
    /\ ~terminated
    /\ call' = [fn |-> "setPreferredPort", portName |-> portName]
    /\ IF preferredPortName_ = portName
       THEN UNCHANGED <<preferredPortName_, portDirty_>>
       ELSE /\ preferredPortName_' = portName
            /\ portDirty_' = TRUE
    /\ UNCHANGED <<running_, exitRequested_, portHandle_, queueVars, worker_,
                   workerVars, startPc, stopPc, hidVars, micVars, deviceOk,
                   terminated, nextId, histVars, baudRate_, result, inputVars>>

\* a started streamer with nothing to send, reconfigured from outside
NextReconfigure ==
    \/ UiStart
    \/ StartLocked
    \/ StartSpawn
    \/ WorkerReconnectFailed
    \/ WorkerReconnected
    \/ WorkerSleep
    \/ DeviceChange
    \/ RequestReconnectCall
    \/ \E baudRate \in BaudRates : SetBaudRate(baudRate)
    \/ \E portName \in PortNames : SetPreferredPort(portName)

SpecReconfigure == Init /\ [][NextReconfigure]_vars

\* a call of one of the three reconfiguration functions
ReconfigureStep ==
    /\ call' # call
    /\ call'.fn \in {"requestReconnect", "setBaudRate", "setPreferredPort"}

\* C13 as stated: every call of requestReconnect, setBaudRate or
\* setPreferredPort leaves the configuration marked dirty.
C13_EveryCallMarksDirty ==
    [][ReconfigureStep => portDirty_']_vars

\* C13 amended: requestReconnect always leaves the configuration dirty;
\* setBaudRate (with 0 standing for 6000000) and setPreferredPort store the
\* value and leave it dirty when the value differs from the stored one, and
\* change nothing when it is the same; and a set flag stays set until a pass
\* of the worker through the dirty branch has reopened the port.
C13_ChangeMarksDirty ==
    /\ [][ReconfigureStep =>
            /\ call'.fn = "requestReconnect" =>
                  (portDirty_' /\ UNCHANGED configVars)
            /\ call'.fn = "setBaudRate" =>
                  LET rate == IF call'.baudRate = 0 THEN 6000000 ELSE call'.baudRate
                  IN /\ baudRate_' = rate
                     /\ UNCHANGED preferredPortName_
                     /\ IF baudRate_ # rate THEN portDirty_' ELSE UNCHANGED portDirty_
            /\ call'.fn = "setPreferredPort" =>
                  /\ preferredPortName_' = call'.portName
                  /\ UNCHANGED baudRate_
                  /\ IF preferredPortName_ # call'.portName
                     THEN portDirty_' ELSE UNCHANGED portDirty_
            /\ UNCHANGED <<portHandle_, queueVars, running_, exitRequested_>>
         ]_vars
    /\ [][(portDirty_ /\ ~portDirty_') =>
            (wpc = "wait" /\ dirtyPass'.opened /\ portHandle_' # INVALID_HANDLE_VALUE)]_vars

\* C13 witness: setBaudRate(0) was called with the default rate stored, the
\* port is open and the configuration is not dirty.
C13_Witness ==
    /\ call = [fn |-> "setBaudRate", baudRate |-> 0]
    /\ baudRate_ = kDefaultBaudRate
    /\ portHandle_ # INVALID_HANDLE_VALUE
    /\ ~portDirty_
    /\ WorkerAlive


\* ------------------------------------------- InputCaptureManager: keyboard
\* Windows virtual-key codes of the modifier keys
VK_SHIFT == 16
VK_CONTROL == 17
VK_MENU == 18
VK_LWIN == 91
VK_RWIN == 92
VK_LSHIFT == 160
VK_RSHIFT == 161
VK_LCONTROL == 162
VK_RCONTROL == 163
VK_LMENU == 164
VK_RMENU == 165

kMenuHotkeyVirtualKey == 77     \* 'M'

\* number of key slots of the keyboard report; activeKeys_ holds no more
KeySlots == 6
\* the roll-over sentinel of an overflowing report
ErrorRollOver == 1

WM_INPUT_CAPTURE_SHOW_MENU == "WM_INPUT_CAPTURE_SHOW_MENU"
WM_INPUT_CAPTURE_UPDATE_CLIP == "WM_INPUT_CAPTURE_UPDATE_CLIP"

isMenuModifierKey(vk) ==
    vk \in {VK_CONTROL, VK_LCONTROL, VK_RCONTROL, VK_MENU, VK_LMENU, VK_RMENU}

isMenuChordKey(vk) == vk = kMenuHotkeyVirtualKey \/ isMenuModifierKey(vk)

isModifierVirtualKey(vk) ==
    vk \in {VK_LSHIFT, VK_RSHIFT, VK_SHIFT, VK_LCONTROL, VK_RCONTROL, VK_CONTROL,
            VK_LMENU, VK_RMENU, VK_MENU, VK_LWIN, VK_RWIN}

\* the HID usage of a virtual key, 0 for a key without one
translateVirtualKeyToUsage(vk, scanCode, extended) ==
    IF vk >= 65 /\ vk <= 90 THEN 4 + (vk - 65)                 \* 'A'..'Z'
    ELSE IF vk >= 49 /\ vk <= 57 THEN 30 + (vk - 49)           \* '1'..'9'
    ELSE IF vk = 48 THEN 39                                    \* '0'
    ELSE IF vk = 13 THEN (IF extended THEN 88 ELSE 40)         \* VK_RETURN
    ELSE IF vk = 27 THEN 41                                    \* VK_ESCAPE
    ELSE IF vk = 8 THEN 42                                     \* VK_BACK
    ELSE IF vk = 9 THEN 43                                     \* VK_TAB
    ELSE IF vk = 32 THEN 44                                    \* VK_SPACE
    ELSE IF vk = 189 THEN 45                                   \* VK_OEM_MINUS
    ELSE IF vk = 187 THEN 46                                   \* VK_OEM_PLUS
    ELSE IF vk = 219 THEN 47                                   \* VK_OEM_4
    ELSE IF vk = 221 THEN 48                                   \* VK_OEM_6
    ELSE IF vk = 220 THEN 49                                   \* VK_OEM_5
    ELSE IF vk = 186 THEN 51                                   \* VK_OEM_1
    ELSE IF vk = 222 THEN 52                                   \* VK_OEM_7
    ELSE IF vk = 192 THEN 53                                   \* VK_OEM_3
    ELSE IF vk = 188 THEN 54                                   \* VK_OEM_COMMA
    ELSE IF vk = 190 THEN 55                                   \* VK_OEM_PERIOD
    ELSE IF vk = 191 THEN 56                                   \* VK_OEM_2
    ELSE IF vk = 20 THEN 57                                    \* VK_CAPITAL
    ELSE IF vk >= 112 /\ vk <= 123 THEN 58 + (vk - 112)        \* VK_F1..VK_F12
    ELSE IF vk = 42 \/ vk = 44 THEN 70                         \* VK_PRINT, VK_SNAPSHOT
    ELSE IF vk = 145 THEN 71                                   \* VK_SCROLL
    ELSE IF vk = 19 THEN 72                                    \* VK_PAUSE
    ELSE IF vk = 45 THEN 73                                    \* VK_INSERT
    ELSE IF vk = 36 THEN 74                                    \* VK_HOME
    ELSE IF vk = 33 THEN 75                                    \* VK_PRIOR
    ELSE IF vk = 46 THEN 76                                    \* VK_DELETE
    ELSE IF vk = 35 THEN 77                                    \* VK_END
    ELSE IF vk = 34 THEN 78                                    \* VK_NEXT
    ELSE IF vk = 39 THEN 79                                    \* VK_RIGHT
    ELSE IF vk = 37 THEN 80                                    \* VK_LEFT
    ELSE IF vk = 40 THEN 81                                    \* VK_DOWN
    ELSE IF vk = 38 THEN 82                                    \* VK_UP
    ELSE IF vk = 144 THEN 83                                   \* VK_NUMLOCK
    ELSE IF vk = 111 THEN 84                                   \* VK_DIVIDE
    ELSE IF vk = 106 THEN 85                                   \* VK_MULTIPLY
    ELSE IF vk = 109 THEN 86                                   \* VK_SUBTRACT
    ELSE IF vk = 107 THEN 87                                   \* VK_ADD
    ELSE IF vk = 108 THEN 88                                   \* VK_SEPARATOR
    ELSE IF vk = 110 THEN 99                                   \* VK_DECIMAL
    ELSE IF vk = 12 THEN 93                                    \* VK_CLEAR
    ELSE IF vk = 93 THEN 101                                   \* VK_APPS
    ELSE IF vk = 226 THEN 100                                  \* VK_OEM_102
    ELSE IF vk >= 97 /\ vk <= 105 THEN 89 + (vk - 97)          \* VK_NUMPAD1..9
    ELSE IF vk = 96 THEN 98                                    \* VK_NUMPAD0
    ELSE IF vk >= 124 /\ vk <= 135 THEN 104 + (vk - 124)       \* VK_F13..VK_F24
    ELSE IF ~extended /\ scanCode % 256 = 86 THEN 100          \* scan code 0x56
    ELSE 0

\* what a call has handed over so far is dropped when the next call begins
Called(m) == [m EXCEPT !.sent = <<>>, !.posted = <<>>]

publishReport(m, type, report) ==
    [m EXCEPT !.sent = Append(@, [type |-> type, report |-> report])]

PostMessage(m, msg) == [m EXCEPT !.posted = Append(@, msg)]

\* what the system answers during a key event: os.cursorOk and os.cursor are
\* the result of GetCursorPos, os.hit is the root window WindowFromPoint finds
\* at the cursor, os.mapped is what MapVirtualKey(scanCode, MAPVK_VSC_TO_VK_EX)
\* returns, 0 for no translation
updateModifierState(m, vk, scanCode, extended, keyDown, mapped) ==
    LET effectiveVk ==
            IF vk \in {VK_SHIFT, VK_CONTROL, VK_MENU}
            THEN IF mapped # 0 THEN mapped
                 ELSE IF vk = VK_CONTROL
                      THEN (IF extended THEN VK_RCONTROL ELSE VK_LCONTROL)
                 ELSE IF vk = VK_MENU
                      THEN (IF extended THEN VK_RMENU ELSE VK_LMENU)
                 ELSE (IF scanCode = 54 THEN VK_RSHIFT ELSE VK_LSHIFT)
            ELSE vk
    IN  IF effectiveVk = VK_LCONTROL THEN [m EXCEPT !.leftCtrl_ = keyDown]
        ELSE IF effectiveVk = VK_RCONTROL THEN [m EXCEPT !.rightCtrl_ = keyDown]
        ELSE IF effectiveVk = VK_LSHIFT THEN [m EXCEPT !.leftShift_ = keyDown]
        ELSE IF effectiveVk = VK_RSHIFT THEN [m EXCEPT !.rightShift_ = keyDown]
        ELSE IF effectiveVk = VK_LMENU THEN [m EXCEPT !.leftAlt_ = keyDown]
        ELSE IF effectiveVk = VK_RMENU THEN [m EXCEPT !.rightAlt_ = keyDown]
        ELSE IF effectiveVk = VK_LWIN THEN [m EXCEPT !.leftWin_ = keyDown]
        ELSE IF effectiveVk = VK_RWIN THEN [m EXCEPT !.rightWin_ = keyDown]
        ELSE m

Bit(flag, value) == IF flag THEN value ELSE 0

currentModifierBits(m) ==
    Bit(m.leftCtrl_, 1) + Bit(m.leftShift_, 2) + Bit(m.leftAlt_, 4)
    + Bit(m.leftWin_, 8) + Bit(m.rightCtrl_, 16) + Bit(m.rightShift_, 32)
    + Bit(m.rightAlt_, 64) + Bit(m.rightWin_, 128)

\* variant of the report that truncates silently when the key table overflowed
keyboardReportTruncating(m) ==
    <<currentModifierBits(m), 0>>
    \o [i \in 1..KeySlots |->
            IF i <= Len(m.activeKeys_) THEN m.activeKeys_[i] ELSE 0]

\* the eight bytes sendKeyboardReport builds
keyboardReport(m) ==
    <<currentModifierBits(m), 0>>
    \o [i \in 1..KeySlots |->
            IF m.keyboardOverflow_ THEN ErrorRollOver
            ELSE IF i <= Len(m.activeKeys_) THEN m.activeKeys_[i]
            ELSE 0]

sendKeyboardReport(m) == publishReport(m, "Keyboard", keyboardReport(m))

ZeroReport == <<0, 0, 0, 0, 0, 0, 0, 0>>

\* variant of resetKeyboardState that emits the report without clearing
resetKeyboardStateReportOnly(m) == publishReport(m, "Keyboard", <<0, 0, 0, 0, 0, 0, 0, 0>>)

resetKeyboardState(m) ==
    publishReport(
        [m EXCEPT !.activeKeys_ = <<>>, !.keyboardOverflow_ = FALSE,
                  !.leftCtrl_ = FALSE, !.rightCtrl_ = FALSE,
                  !.leftShift_ = FALSE, !.rightShift_ = FALSE,
                  !.leftAlt_ = FALSE, !.rightAlt_ = FALSE,
                  !.leftWin_ = FALSE, !.rightWin_ = FALSE,
                  !.menuChordLatched_ = FALSE, !.skipNextRelativeEvent_ = FALSE,
                  !.leftButtonDown_ = FALSE, !.rightButtonDown_ = FALSE,
                  !.middleButtonDown_ = FALSE, !.xButton1Down_ = FALSE,
                  !.xButton2Down_ = FALSE],
        "Keyboard", ZeroReport)

\* variant of isWithinCaptureBounds that tests the rectangle last stored,
\* valid or not
isWithinStoredBounds(m, pt, hit) ==
    /\ pt.x >= m.captureBounds_.left /\ pt.x < m.captureBounds_.right
    /\ pt.y >= m.captureBounds_.top /\ pt.y < m.captureBounds_.bottom
    /\ (m.targetWindow_ = nullptr \/ (hit # nullptr /\ hit = m.targetWindow_))

\* variant of isWithinCaptureBounds that does not ask which window is under
\* the point
isWithinCaptureRect(m, pt, hit) ==
    /\ m.captureBoundsValid_
    /\ pt.x >= m.captureBounds_.left /\ pt.x < m.captureBounds_.right
    /\ pt.y >= m.captureBounds_.top /\ pt.y < m.captureBounds_.bottom

\* hit is the root window WindowFromPoint finds at pt, nullptr for none
isWithinCaptureBounds(m, pt, hit) ==
    /\ m.captureBoundsValid_
    /\ pt.x >= m.captureBounds_.left /\ pt.x < m.captureBounds_.right
    /\ pt.y >= m.captureBounds_.top /\ pt.y < m.captureBounds_.bottom
    /\ (m.targetWindow_ = nullptr \/ (hit # nullptr /\ hit = m.targetWindow_))

\* the window's thread is the thread of the hooks and of the calls, so the
\* clip is applied at once; computeClipRect and ClipCursor succeed
requestCursorClip(m, enable) ==
    IF m.targetWindow_ = nullptr THEN m ELSE [m EXCEPT !.cursorClipped_ = enable]

SeqWithout(s, v) == SelectSeq(s, LAMBDA e : e # v)
InSeq(s, v) == \E i \in 1..Len(s) : s[i] = v

\* variant of the key table without the limit of six
updateActiveKeysUnbounded(m, usage, keyDown, keyUp) ==
    IF keyDown
    THEN IF InSeq(m.activeKeys_, usage) THEN m
         ELSE [m EXCEPT !.activeKeys_ = Append(@, usage),
                        !.keyboardOverflow_ = FALSE]
    ELSE IF keyUp
    THEN [m EXCEPT !.activeKeys_ = SeqWithout(@, usage),
                   !.keyboardOverflow_ = FALSE]
    ELSE m

\* handleKeyboardEvent, lines 518-544: the key table, for a key with a usage
updateActiveKeys(m, usage, keyDown, keyUp) ==
    IF keyDown
    THEN IF InSeq(m.activeKeys_, usage) THEN m
         ELSE IF Len(m.activeKeys_) < KeySlots
              THEN [m EXCEPT !.activeKeys_ = Append(@, usage),
                             !.keyboardOverflow_ = FALSE]
              ELSE [m EXCEPT !.keyboardOverflow_ = TRUE]
    ELSE IF keyUp
    THEN [m EXCEPT !.activeKeys_ = SeqWithout(@, usage),
                   !.keyboardOverflow_ = FALSE]
    ELSE m

IsKeyDown(wParam) == wParam \in {"WM_KEYDOWN", "WM_SYSKEYDOWN"}
IsKeyUp(wParam) == wParam \in {"WM_KEYUP", "WM_SYSKEYUP"}

\* how far handleKeyboardEvent takes an event: dropped at one of its early
\* returns ("injected", "message", "outside"), taken by the menu chord
\* ("latch", "latched"), or through the key table to the report ("table")
keyboardEventPath(m, wParam, data, os) ==
    LET keyDown == IsKeyDown(wParam)
        keyUp == IsKeyUp(wParam)
        vk == data.vkCode
        chordEnabled == m.menuChordEnabled_
        chordCandidate == chordEnabled /\ isMenuChordKey(vk)
        m1 == updateModifierState(m, vk, data.scanCode, data.extended, keyDown,
                                  os.mapped)
        menuChord == /\ chordEnabled
                     /\ (m1.leftCtrl_ \/ m1.rightCtrl_)
                     /\ (m1.leftAlt_ \/ m1.rightAlt_)
        isMenuKey == chordEnabled /\ vk = kMenuHotkeyVirtualKey
    IN  IF data.injected THEN "injected"
        ELSE IF ~keyDown /\ ~keyUp THEN "message"
        ELSE IF /\ ~chordCandidate
                /\ (~os.cursorOk
                    \/ ~isWithinCaptureBounds(m, os.cursor, os.hit))
        THEN "outside"
        ELSE IF isMenuKey /\ menuChord /\ keyDown THEN "latch"
        ELSE IF isMenuKey /\ m1.menuChordLatched_ THEN "latched"
        ELSE "table"

\* variant of leaving the latch that leaves the chord latched
keepLatch(m) == IF m.relativeCaptureActive_ THEN requestCursorClip(m, TRUE) ELSE m

unlatch(m) ==
    LET m1 == [m EXCEPT !.menuChordLatched_ = FALSE]
    IN  IF m1.relativeCaptureActive_ THEN requestCursorClip(m1, TRUE) ELSE m1

\* variant of the latch that posts the messages on every key-down
latchMenuChordEveryTime(m) ==
    LET m1 == [m EXCEPT !.menuChordLatched_ = TRUE]
    IN  IF m1.targetWindow_ # nullptr
        THEN PostMessage(PostMessage(m1, WM_INPUT_CAPTURE_SHOW_MENU),
                         WM_INPUT_CAPTURE_UPDATE_CLIP)
        ELSE m1

\* handleKeyboardEvent, lines 479-488: the menu key went down with the chord
\* held
latchMenuChord(m) ==
    IF m.menuChordLatched_ THEN m
    ELSE LET m1 == [m EXCEPT !.menuChordLatched_ = TRUE]
         IN  IF m1.targetWindow_ # nullptr
             THEN PostMessage(PostMessage(m1, WM_INPUT_CAPTURE_SHOW_MENU),
                              WM_INPUT_CAPTURE_UPDATE_CLIP)
             ELSE m1

handleKeyboardEvent(m, wParam, data, os) ==
    LET keyDown == IsKeyDown(wParam)
        keyUp == IsKeyUp(wParam)
        vk == data.vkCode
        chordEnabled == m.menuChordEnabled_
        path == keyboardEventPath(m, wParam, data, os)
        m1 == updateModifierState(m, vk, data.scanCode, data.extended, keyDown,
                                  os.mapped)
        menuChord == /\ chordEnabled
                     /\ (m1.leftCtrl_ \/ m1.rightCtrl_)
                     /\ (m1.leftAlt_ \/ m1.rightAlt_)
        usage == translateVirtualKeyToUsage(vk, data.scanCode, data.extended)
    IN  IF path \in {"injected", "message", "outside"} THEN m
        ELSE IF path = "latch"
        THEN latchMenuChord(m1)
        ELSE IF path = "latched"
        THEN IF keyUp \/ ~menuChord THEN unlatch(m1) ELSE m1
        ELSE LET m2 == IF /\ vk # kMenuHotkeyVirtualKey \/ ~chordEnabled
                          /\ m1.menuChordLatched_ /\ chordEnabled /\ ~menuChord
                          /\ keyUp /\ isMenuModifierKey(vk)
                       THEN unlatch(m1)
                       ELSE m1
                 m3 == IF ~isModifierVirtualKey(vk) /\ usage # 0
                       THEN updateActiveKeys(m2, usage, keyDown, keyUp)
                       ELSE m2
             IN  sendKeyboardReport(m3)

\* whether the event of a call reached the key table with a key that has a
\* usage
TableKey(m, wParam, data, os) ==
    /\ keyboardEventPath(m, wParam, data, os) = "table"
    /\ ~isModifierVirtualKey(data.vkCode)
    /\ translateVirtualKeyToUsage(data.vkCode, data.scanCode, data.extended) # 0

heldAfter(held, m, wParam, data, os) ==
    LET usage == translateVirtualKeyToUsage(data.vkCode, data.scanCode,
                                            data.extended)
    IN  IF ~TableKey(m, wParam, data, os) THEN held
        ELSE IF IsKeyDown(wParam) THEN held \cup {usage}
        ELSE held \ {usage}

ShowMenus(m) == Len(SelectSeq(m.posted, LAMBDA msg : msg = WM_INPUT_CAPTURE_SHOW_MENU))

\* the chord is armed and idle, Ctrl and Alt are held, and there is a window
\* to post to
ChordReady(m) ==
    /\ m.enabled_
    /\ m.menuChordEnabled_
    /\ ~m.menuChordLatched_
    /\ (m.leftCtrl_ \/ m.rightCtrl_)
    /\ (m.leftAlt_ \/ m.rightAlt_)
    /\ m.targetWindow_ # nullptr

\* at most this many show-menu messages are counted
MaxShown == 2

runAfter(run, before, after, wParam, data) ==
    IF data.injected \/ (~IsKeyDown(wParam) /\ ~IsKeyUp(wParam)) THEN run
    ELSE IF data.vkCode # kMenuHotkeyVirtualKey
    THEN [run EXCEPT !.run = FALSE, !.shown = 0]
    ELSE IF IsKeyUp(wParam) THEN NoRun
    ELSE IF ~run.down
    THEN [down |-> TRUE,
          run |-> ChordReady(before),
          shown |-> IF ChordReady(before) THEN ShowMenus(after) ELSE 0]
    ELSE IF run.run
    THEN [run EXCEPT !.shown = IF @ + ShowMenus(after) > MaxShown THEN MaxShown
                                ELSE @ + ShowMenus(after)]
    ELSE run

\* shouldConsumeKeyboard, lines 389-411
shouldConsumeKeyboard(os) ==
    /\ os.cursorOk
    /\ instance_ # nullptr
    /\ isWithinCaptureBounds(managers[instance_], os.cursor, os.hit)

\* keyboardProc, lines 348-387, for a key event the system hands to the hook
KeyboardProc(wParam, data, os) ==
    /\ instance_ # nullptr
    /\ managers[instance_].enabled_
    /\ managers[instance_].keyboardHook_ # nullptr
    /\ LET self == instance_
           m == Called(managers[self])
           within == shouldConsumeKeyboard(os)
           isChordKey == m.menuChordEnabled_ /\ isMenuChordKey(data.vkCode)
           after == IF within \/ isChordKey
                    THEN handleKeyboardEvent(m, wParam, data, os)
                    ELSE m
       IN  /\ managers' = [managers EXCEPT ![self] = after]
           /\ heldKeys' = IF within \/ isChordKey
                          THEN heldAfter(heldKeys, m, wParam, data, os)
                          ELSE heldKeys
           /\ menuRun' = runAfter(menuRun, m, after, wParam, data)
    /\ UNCHANGED <<instance_, streamerVars, configVars, fnVars>>

\* ---------------------------------------------- InputCaptureManager: mouse
kMouseDeltaMax == 127
kMouseDeltaMin == -127
WHEEL_DELTA == 120
kAbsoluteMax == 32767

Clamp(value, low, high) ==
    IF value < low THEN low ELSE IF value > high THEN high ELSE value

\* variant of clampInt8 that clamps to the whole range of std::int8_t
clampInt8Full(value) == Clamp(value, -128, 127)

clampInt8(value) == Clamp(value, kMouseDeltaMin, kMouseDeltaMax)

\* static_cast<std::uint8_t> of a std::int8_t
ToByte(value) == value % 256
\* the std::int8_t a report byte stands for
FromByte(byte) == IF byte >= 128 THEN byte - 256 ELSE byte

\* integer division of C++, which truncates towards zero
TruncDiv(a, b) == IF a >= 0 THEN a \div b ELSE -((-a) \div b)

\* static_cast<SHORT>(HIWORD(data.mouseData))
SignedHiword(hiword) == IF hiword >= 32768 THEN hiword - 65536 ELSE hiword

ensureCursorHidden(m, hidden) == [m EXCEPT !.cursorHidden_ = hidden]

startRelativeCapture(m, pt) ==
    IF m.absoluteMode_ THEN m
    ELSE LET anchor ==
                 IF m.captureBoundsValid_
                 THEN POINT(Clamp(pt.x, m.captureBounds_.left,
                                  m.captureBounds_.right - 1),
                            Clamp(pt.y, m.captureBounds_.top,
                                  m.captureBounds_.bottom - 1))
                 ELSE pt
         IN  IF m.relativeCaptureActive_ THEN m
             ELSE [requestCursorClip(
                       ensureCursorHidden(
                           [m EXCEPT !.relativeAnchorPoint_ = anchor,
                                     !.relativeCaptureActive_ = TRUE,
                                     !.relativeCaptureSuspended_ = FALSE,
                                     !.skipNextRelativeEvent_ = TRUE],
                           TRUE),
                       TRUE)
                   EXCEPT !.lastMousePoint_ = anchor,
                          !.hasLastMousePoint_ = TRUE]

stopRelativeCapture(m, suspend) ==
    LET wasActive == m.relativeCaptureActive_
        m1 == [m EXCEPT !.relativeCaptureActive_ = FALSE]
        m2 == IF wasActive
              THEN requestCursorClip(ensureCursorHidden(m1, FALSE), FALSE)
              ELSE m1
    IN  [m2 EXCEPT !.relativeCaptureSuspended_ = suspend,
                   !.hasLastMousePoint_ = IF wasActive THEN FALSE ELSE @,
                   !.skipNextRelativeEvent_ = FALSE]

updateMouseButtonState(m, wParam, hiword) ==
    IF wParam \in {"WM_LBUTTONDOWN", "WM_LBUTTONDBLCLK"}
    THEN [m EXCEPT !.leftButtonDown_ = TRUE]
    ELSE IF wParam = "WM_LBUTTONUP" THEN [m EXCEPT !.leftButtonDown_ = FALSE]
    ELSE IF wParam \in {"WM_RBUTTONDOWN", "WM_RBUTTONDBLCLK"}
    THEN [m EXCEPT !.rightButtonDown_ = TRUE]
    ELSE IF wParam = "WM_RBUTTONUP" THEN [m EXCEPT !.rightButtonDown_ = FALSE]
    ELSE IF wParam \in {"WM_MBUTTONDOWN", "WM_MBUTTONDBLCLK"}
    THEN [m EXCEPT !.middleButtonDown_ = TRUE]
    ELSE IF wParam = "WM_MBUTTONUP" THEN [m EXCEPT !.middleButtonDown_ = FALSE]
    ELSE IF wParam \in {"WM_XBUTTONDOWN", "WM_XBUTTONUP", "WM_XBUTTONDBLCLK"}
    THEN LET pressed == wParam \in {"WM_XBUTTONDOWN", "WM_XBUTTONDBLCLK"}
         IN  [m EXCEPT !.xButton1Down_ = IF hiword % 2 = 1 THEN pressed ELSE @,
                       !.xButton2Down_ = IF (hiword \div 2) % 2 = 1 THEN pressed
                                         ELSE @]
    ELSE m

currentMouseButtonBits(m) ==
    Bit(m.leftButtonDown_, 1) + Bit(m.rightButtonDown_, 2)
    + Bit(m.middleButtonDown_, 4) + Bit(m.xButton1Down_, 8)
    + Bit(m.xButton2Down_, 16)

\* std::lround of the quotient n / d of two integers, n >= 0 and d > 0: the
\* nearest integer, a half rounded up
RoundDiv(n, d) == (2 * n + d) \div (2 * d)

\* variant of the scaling that goes from the viewport to the coordinate range
\* in one step
absoluteCoordinateDirect(p, low, high, target) ==
    LET extent == IF high - low > 1 THEN high - low ELSE 1
        clamped == Clamp(p - low, 0, extent - 1)
    IN  IF extent > 1
        THEN Clamp(RoundDiv(clamped * kAbsoluteMax, extent - 1), 0, kAbsoluteMax)
        ELSE 0

\* sendAbsoluteMouseState, lines 900-925, for one axis: the coordinate of p
\* in the viewport [low, high) with target pixels on that axis
absoluteCoordinate(p, low, high, target) ==
    LET extent == IF high - low > 1 THEN high - low ELSE 1
        clamped == Clamp(p - low, 0, extent - 1)
        targetN == IF target <= 0 THEN extent ELSE target
        scaled == IF extent > 1
                  THEN (clamped * (targetN - 1))
                       \div (IF extent - 1 > 1 THEN extent - 1 ELSE 1)
                  ELSE 0
    IN  IF targetN > 1
        THEN Clamp(RoundDiv(scaled * kAbsoluteMax, targetN - 1), 0, kAbsoluteMax)
        ELSE 0

NoReport == <<>>

\* the seven bytes sendAbsoluteMouseState publishes, NoReport where it
\* returns false
absoluteReport(m, point, buttons, wheel, pan) ==
    LET haveVideoBounds == m.videoBoundsValid_
        videoBounds == IF haveVideoBounds THEN m.videoBounds_ ELSE m.captureBounds_
        absX == absoluteCoordinate(point.x, videoBounds.left, videoBounds.right,
                                   m.targetWidth_)
        absY == absoluteCoordinate(point.y, videoBounds.top, videoBounds.bottom,
                                   m.targetHeight_)
    IN  IF ~m.captureBoundsValid_ THEN NoReport
        ELSE IF /\ haveVideoBounds
                /\ \/ point.x < videoBounds.left \/ point.x >= videoBounds.right
                   \/ point.y < videoBounds.top \/ point.y >= videoBounds.bottom
        THEN NoReport
        ELSE <<buttons % 32, (absX \div 256) % 256, absX % 256,
               (absY \div 256) % 256, absY % 256, ToByte(wheel), ToByte(pan)>>

sendAbsoluteMouseState(m, point, buttons, wheel, pan) ==
    IF absoluteReport(m, point, buttons, wheel, pan) = NoReport THEN m
    ELSE publishReport(m, "MouseAbsolute",
                       absoluteReport(m, point, buttons, wheel, pan))

\* hit is the root window WindowFromPoint finds at data.pt
handleMouseEvent(m, wParam, data, hit) ==
    LET absoluteMode == m.absoluteMode_
        insideBounds == isWithinCaptureBounds(m, data.pt, hit)
        steps == TruncDiv(SignedHiword(data.hiword), WHEEL_DELTA)
        wheel == IF wParam = "WM_MOUSEWHEEL" THEN clampInt8(steps) ELSE 0
        pan == IF wParam = "WM_MOUSEHWHEEL" THEN clampInt8(steps) ELSE 0
    IN  IF data.injected THEN m
        ELSE IF ~insideBounds
        THEN LET m1 == [m EXCEPT !.hasLastMousePoint_ = FALSE]
             IN  IF ~absoluteMode THEN stopRelativeCapture(m1, FALSE) ELSE m1
        ELSE IF absoluteMode
        THEN LET m1 == updateMouseButtonState(stopRelativeCapture(m, FALSE),
                                              wParam, data.hiword)
                 buttons == currentMouseButtonBits(m1)
             IN  IF absoluteReport(m1, data.pt, buttons, wheel, pan) # NoReport
                 THEN [sendAbsoluteMouseState(m1, data.pt, buttons, wheel, pan)
                       EXCEPT !.lastMousePoint_ = data.pt,
                              !.hasLastMousePoint_ = TRUE]
                 ELSE [m1 EXCEPT !.hasLastMousePoint_ = FALSE]
        ELSE LET m1 == IF ~m.relativeCaptureActive_
                       THEN startRelativeCapture(m, data.pt)
                       ELSE m
             IN  IF ~m1.relativeCaptureActive_
                 THEN [m1 EXCEPT !.hasLastMousePoint_ = FALSE]
                 ELSE IF m1.skipNextRelativeEvent_ /\ wParam = "WM_MOUSEMOVE"
                 THEN [m1 EXCEPT !.skipNextRelativeEvent_ = FALSE]
                 ELSE LET m2 == updateMouseButtonState(m1, wParam, data.hiword)
                          buttons == currentMouseButtonBits(m2)
                          anchor == m2.relativeAnchorPoint_
                          dx8 == clampInt8(data.pt.x - anchor.x)
                          dy8 == clampInt8(data.pt.y - anchor.y)
                      IN  publishReport(m2, "Mouse",
                                        <<buttons % 32, ToByte(dx8), ToByte(dy8),
                                          ToByte(wheel), ToByte(pan)>>)

\* mouseProc, lines 413-438, for a mouse event the system hands to the hook,
\* with the event on record
MouseProc(wParam, data, hit) ==
    /\ instance_ # nullptr
    /\ managers[instance_].enabled_
    /\ managers[instance_].mouseHook_ # nullptr
    /\ managers' = [managers EXCEPT ![instance_] =
                        handleMouseEvent(Called(@), wParam, data, hit)]
    /\ menuRun' = [menuRun EXCEPT !.run = FALSE, !.shown = 0]
    /\ call' = [fn |-> "mouseProc", wParam |-> wParam, data |-> data, hit |-> hit]
    /\ UNCHANGED <<instance_, heldKeys, streamerVars, configVars, result>>

\* --------------------------------------- InputCaptureManager: the calls
\* variant of clearModifierState that empties the key table as well
clearModifierAndKeyState(m) ==
    LET hadButtons == currentMouseButtonBits(m) # 0
        m1 == sendKeyboardReport(
                  [m EXCEPT !.activeKeys_ = <<>>, !.keyboardOverflow_ = FALSE,
                            !.leftCtrl_ = FALSE, !.rightCtrl_ = FALSE,
                            !.leftShift_ = FALSE, !.rightShift_ = FALSE,
                            !.leftAlt_ = FALSE, !.rightAlt_ = FALSE,
                            !.leftWin_ = FALSE, !.rightWin_ = FALSE,
                            !.menuChordLatched_ = FALSE,
                            !.leftButtonDown_ = FALSE, !.rightButtonDown_ = FALSE,
                            !.middleButtonDown_ = FALSE, !.xButton1Down_ = FALSE,
                            !.xButton2Down_ = FALSE])
    IN  IF ~hadButtons THEN m1
        ELSE IF m1.absoluteMode_ /\ m1.hasLastMousePoint_
        THEN sendAbsoluteMouseState(m1, m1.lastMousePoint_, 0, 0, 0)
        ELSE IF ~m1.absoluteMode_ /\ m1.relativeCaptureActive_
        THEN publishReport(m1, "Mouse", <<0, 0, 0, 0, 0>>)
        ELSE m1

clearModifierState(m) ==
    LET hadButtons == currentMouseButtonBits(m) # 0
        m1 == sendKeyboardReport(
                  [m EXCEPT !.leftCtrl_ = FALSE, !.rightCtrl_ = FALSE,
                            !.leftShift_ = FALSE, !.rightShift_ = FALSE,
                            !.leftAlt_ = FALSE, !.rightAlt_ = FALSE,
                            !.leftWin_ = FALSE, !.rightWin_ = FALSE,
                            !.menuChordLatched_ = FALSE,
                            !.leftButtonDown_ = FALSE, !.rightButtonDown_ = FALSE,
                            !.middleButtonDown_ = FALSE, !.xButton1Down_ = FALSE,
                            !.xButton2Down_ = FALSE])
    IN  IF ~hadButtons THEN m1
        ELSE IF m1.absoluteMode_ /\ m1.hasLastMousePoint_
        THEN sendAbsoluteMouseState(m1, m1.lastMousePoint_, 0, 0, 0)
        ELSE IF ~m1.absoluteMode_ /\ m1.relativeCaptureActive_
        THEN publishReport(m1, "Mouse", <<0, 0, 0, 0, 0>>)
        ELSE m1

\* a manager and the registry instance_, as installHooks, removeHooks and
\* setEnabled change them together
Registered(m, registry) == [m |-> m, instance_ |-> registry]

removeHooks(m, registry, self) ==
    Registered(
        [resetKeyboardState([m EXCEPT !.keyboardHook_ = nullptr,
                                      !.mouseHook_ = nullptr])
         EXCEPT !.hasLastMousePoint_ = FALSE],
        IF registry = self THEN nullptr ELSE registry)

\* variant of installHooks that takes the registry over from its holder
installHooksTakingOver(m, registry, self, keyboardOk, mouseOk) ==
    Registered(resetKeyboardState([m EXCEPT !.keyboardHook_ = self,
                                            !.mouseHook_ = self,
                                            !.enabled_ = TRUE]),
               self)

\* keyboardOk, mouseOk: whether SetWindowsHookExW returns a hook
installHooks(m, registry, self, keyboardOk, mouseOk) ==
    IF registry # nullptr /\ registry # self
    THEN Registered([m EXCEPT !.enabled_ = FALSE], registry)
    ELSE LET hooked == [m EXCEPT
                           !.keyboardHook_ = IF keyboardOk THEN self ELSE nullptr,
                           !.mouseHook_ = IF mouseOk THEN self ELSE nullptr]
         IN  IF ~keyboardOk \/ ~mouseOk
             THEN LET removed == removeHooks(hooked, self, self)
                  IN  Registered([removed.m EXCEPT !.enabled_ = FALSE],
                                 removed.instance_)
             ELSE Registered(resetKeyboardState([hooked EXCEPT !.enabled_ = TRUE]),
                             self)

\* variant of setEnabled that leaves menuChordEnabled_ alone
setEnabledKeepingChord(m, registry, self, enabled, keyboardOk, mouseOk) ==
    IF enabled /\ ~m.enabled_
    THEN installHooks([m EXCEPT !.relativeCaptureSuspended_ = FALSE,
                                !.activeKeys_ = <<>>,
                                !.keyboardOverflow_ = FALSE,
                                !.hasLastMousePoint_ = FALSE,
                                !.menuChordLatched_ = FALSE,
                                !.skipNextRelativeEvent_ = FALSE],
                      registry, self, keyboardOk, mouseOk)
    ELSE IF ~enabled /\ m.enabled_
    THEN LET removed == removeHooks(
                            stopRelativeCapture([m EXCEPT !.enabled_ = FALSE],
                                                FALSE),
                            registry, self)
         IN  Registered(
                 requestCursorClip([removed.m EXCEPT
                                        !.menuChordLatched_ = FALSE,
                                        !.skipNextRelativeEvent_ = FALSE],
                                   FALSE),
                 removed.instance_)
    ELSE Registered(m, registry)

setEnabled(m, registry, self, enabled, keyboardOk, mouseOk) ==
    IF enabled /\ ~m.enabled_
    THEN installHooks([m EXCEPT !.relativeCaptureSuspended_ = FALSE,
                                !.activeKeys_ = <<>>,
                                !.keyboardOverflow_ = FALSE,
                                !.hasLastMousePoint_ = FALSE,
                                !.menuChordLatched_ = FALSE,
                                !.skipNextRelativeEvent_ = FALSE,
                                !.menuChordEnabled_ = FALSE],
                      registry, self, keyboardOk, mouseOk)
    ELSE IF ~enabled /\ m.enabled_
    THEN LET removed == removeHooks(
                            stopRelativeCapture([m EXCEPT !.enabled_ = FALSE],
                                                FALSE),
                            registry, self)
         IN  Registered(
                 requestCursorClip([removed.m EXCEPT
                                        !.menuChordLatched_ = FALSE,
                                        !.skipNextRelativeEvent_ = FALSE,
                                        !.menuChordEnabled_ = FALSE],
                                   FALSE),
                 removed.instance_)
    ELSE Registered(m, registry)

\* variant of setAbsoluteMode that leaves a relative capture running
setAbsoluteModeKeepingCapture(m, absolute) ==
    IF m.absoluteMode_ = absolute THEN m
    ELSE [m EXCEPT !.absoluteMode_ = absolute,
                   !.hasLastMousePoint_ = FALSE,
                   !.lastMousePoint_ = POINT(0, 0),
                   !.relativeCaptureSuspended_ = FALSE]

setAbsoluteMode(m, absolute) ==
    IF m.absoluteMode_ = absolute THEN m
    ELSE LET m1 == [m EXCEPT !.absoluteMode_ = absolute,
                             !.hasLastMousePoint_ = FALSE,
                             !.lastMousePoint_ = POINT(0, 0)]
         IN  IF absolute
             THEN requestCursorClip(
                      [stopRelativeCapture(m1, FALSE)
                       EXCEPT !.relativeCaptureSuspended_ = FALSE],
                      FALSE)
             ELSE LET m2 == [m1 EXCEPT !.relativeCaptureSuspended_ = FALSE]
                  IN  IF m2.relativeCaptureActive_
                      THEN requestCursorClip(m2, TRUE)
                      ELSE m2

setMenuChordEnabled(m, enabled) == [m EXCEPT !.menuChordEnabled_ = enabled]

\* variant of setCaptureRegion that leaves relative capture alone
setCaptureRegionKeepingCapture(m, screenRect, valid) ==
    [m EXCEPT !.captureBounds_ = screenRect,
              !.captureBoundsValid_ = valid,
              !.videoBoundsValid_ = IF valid THEN @ ELSE FALSE,
              !.hasLastMousePoint_ = IF valid THEN @ ELSE FALSE]

setCaptureRegion(m, screenRect, valid) ==
    LET m1 == [m EXCEPT !.captureBounds_ = screenRect,
                        !.captureBoundsValid_ = valid,
                        !.videoBoundsValid_ = IF valid THEN @ ELSE FALSE]
    IN  IF valid THEN m1
        ELSE stopRelativeCapture([m1 EXCEPT !.hasLastMousePoint_ = FALSE], FALSE)

setTargetWindow(m, hwnd) ==
    IF hwnd = nullptr
    THEN [m EXCEPT !.targetWindow_ = hwnd, !.cursorClipped_ = FALSE]
    ELSE [m EXCEPT !.targetWindow_ = hwnd]

setTargetResolution(m, width, height) ==
    IF width <= 0 \/ height <= 0 THEN m
    ELSE [m EXCEPT !.targetWidth_ = width, !.targetHeight_ = height]

setVideoViewport(m, viewport, valid) ==
    [m EXCEPT !.videoBounds_ = viewport, !.videoBoundsValid_ = valid]

\* ------------------------------------ the keyboard of a capturing manager
\* the capture region the application sets, and a point of it
CaptureRect == RECT(0, 0, 20000, 20000)
InsidePoint == POINT(10000, 10000)
OutsidePoint == POINT(-5, 10000)

\* the application's manager after setTargetWindow(hwnd_),
\* setCaptureRegion(CaptureRect, true) and a successful setEnabled(true)
Capturing ==
    setEnabled(setCaptureRegion(setTargetWindow(NewManager, hwnd_), CaptureRect,
                                TRUE),
               nullptr, 1, TRUE, TRUE, TRUE)

InitCapturing ==
    /\ StreamerInit
    /\ deviceOk
    /\ call = NoCall
    /\ result = NoResult
    /\ managers = [i \in Instances |-> IF i = 1 THEN Called(Capturing.m)
                                       ELSE NewManager]
    /\ instance_ = Capturing.instance_
    /\ heldKeys = {}
    /\ menuRun = NoRun

Key(vk) == [vkCode |-> vk, scanCode |-> 0, extended |-> FALSE, injected |-> FALSE]
\* the cursor inside the capture region, over the application's window
Inside == [cursorOk |-> TRUE, cursor |-> InsidePoint, hit |-> hwnd_, mapped |-> 0]

\* 'A'..'F' and 'M', and a key without a usage
TypedKeys == {65, 66, 67, 68, 69, 70, 77}
UnmappedKey == 255

\* the key events of the keyboard specification: every typed key and
\* modifier goes down and up inside the capture region; some events are
\* injected, are not key messages, or come with the cursor outside the
\* region, over another window, or unknown
KeyboardEvents ==
    {[wParam |-> w, data |-> Key(vk), os |-> Inside] :
        w \in {"WM_KEYDOWN", "WM_KEYUP"},
        vk \in TypedKeys \cup {UnmappedKey, VK_LSHIFT}}
    \cup {[wParam |-> "WM_KEYDOWN", data |-> [Key(65) EXCEPT !.injected = TRUE],
           os |-> Inside],
          [wParam |-> "WM_CHAR", data |-> Key(65), os |-> Inside],
          [wParam |-> "WM_KEYUP", data |-> Key(65),
           os |-> [Inside EXCEPT !.cursor = OutsidePoint]],
          [wParam |-> "WM_KEYUP", data |-> Key(66),
           os |-> [Inside EXCEPT !.hit = otherWindow]],
          [wParam |-> "WM_KEYUP", data |-> Key(67),
           os |-> [Inside EXCEPT !.cursorOk = FALSE]]}

KeyboardEvent == \E ev \in KeyboardEvents : KeyboardProc(ev.wParam, ev.data, ev.os)

\* the application calls clearModifierState() when its window loses the focus
\* (Application.cpp, lines 273-296)
ClearModifierState ==
    /\ managers' = [managers EXCEPT ![1] = clearModifierState(Called(@))]
    /\ menuRun' = [menuRun EXCEPT !.run = FALSE, !.shown = 0]
    /\ UNCHANGED <<instance_, heldKeys, streamerVars, configVars, fnVars>>

NextKeyboard ==
    \/ KeyboardEvent
    \/ ClearModifierState

SpecKeyboard == InitCapturing /\ [][NextKeyboard]_vars

\* the keyboard reports the latest call handed to the streamer
KeyboardReports(m) == SelectSeq(m.sent, LAMBDA r : r.type = "Keyboard")
\* bytes 2-7 of a keyboard report
KeyBytes(report) == {report[i] : i \in 3..8}
Elements(s) == {s[i] : i \in 1..Len(s)}

C15_RollOverWhileMoreThanSixHeld ==
    Cardinality(heldKeys) > KeySlots
        => \A i \in 1..Len(KeyboardReports(managers[1])) :
               KeyBytes(KeyboardReports(managers[1])[i].report) = {ErrorRollOver}


\* ------------------------------------------------------- the menu chord
Outside == [Inside EXCEPT !.cursor = OutsidePoint]

\* the key events of the menu-chord specification: the menu key 'M', the key
\* 'A', left Ctrl, left Alt, and Ctrl and Alt under their generic codes (the
\* right-hand keys), inside the capture region and outside it
ChordEvents ==
    {[wParam |-> w, data |-> Key(vk), os |-> os] :
        w \in {"WM_KEYDOWN", "WM_KEYUP"},
        vk \in {kMenuHotkeyVirtualKey, 65, VK_LCONTROL, VK_LMENU},
        os \in {Inside, Outside}}
    \cup {[wParam |-> w, data |-> [Key(VK_CONTROL) EXCEPT !.extended = TRUE],
           os |-> Inside] : w \in {"WM_KEYDOWN", "WM_KEYUP"}}
    \cup {[wParam |-> w, data |-> Key(VK_MENU),
           os |-> [Inside EXCEPT !.mapped = VK_RMENU]] :
            w \in {"WM_SYSKEYDOWN", "WM_SYSKEYUP"}}
    \cup {[wParam |-> "WM_KEYDOWN",
           data |-> [Key(kMenuHotkeyVirtualKey) EXCEPT !.injected = TRUE],
           os |-> Inside]}

ChordEvent == \E ev \in ChordEvents : KeyboardProc(ev.wParam, ev.data, ev.os)

\* registerMenuHotkey and unregisterMenuHotkey arm and disarm the chord
\* (Application.cpp, lines 603-659)
SetMenuChordEnabled(enabled) ==
    /\ managers' = [managers EXCEPT ![1] = setMenuChordEnabled(Called(@), enabled)]
    /\ menuRun' = [menuRun EXCEPT !.run = FALSE, !.shown = 0]
    /\ UNCHANGED <<instance_, heldKeys, streamerVars, configVars, fnVars>>

NextMenuChord ==
    \/ ChordEvent
    \/ \E enabled \in BOOLEAN : SetMenuChordEnabled(enabled)
    \/ ClearModifierState

SpecMenuChord == InitCapturing /\ [][NextMenuChord]_vars

\* C16: while the menu key is down after a press made with capture enabled,
\* the chord armed and idle, Ctrl and Alt held and a target window set, and
\* only key-downs of the menu key have followed that press, exactly one
\* show-menu message has been posted since the press.
C16_ChordFiresOnce == menuRun.run => menuRun.shown = 1

\* C16 witness: the menu key was pressed with the chord held, one show-menu
\* message was posted, and the latest key-down of the held menu key posted
\* nothing.
C16_Witness ==
    /\ menuRun.run
    /\ menuRun.shown = 1
    /\ managers[1].menuChordLatched_
    /\ managers[1].posted = <<>>


\* the modifier and mouse-button flags of a manager that are set
FlagsSet(m) ==
    {f \in {"leftCtrl_", "rightCtrl_", "leftShift_", "rightShift_", "leftAlt_",
            "rightAlt_", "leftWin_", "rightWin_", "leftButtonDown_",
            "rightButtonDown_", "middleButtonDown_", "xButton1Down_",
            "xButton2Down_"} : m[f]}

\* C17: a call of clearModifierState() leaves every modifier flag and every
\* mouse-button flag false and activeKeys_ empty, and the one keyboard report
\* it emits is eight zero bytes.
C17_ClearLeavesNeutral ==
    [][ClearModifierState
        => /\ FlagsSet(managers'[1]) = {}
           /\ managers'[1].activeKeys_ = <<>>
           /\ KeyboardReports(managers'[1])
                  = <<[type |-> "Keyboard", report |-> ZeroReport]>>]_vars


\* ------------------------------------------ the mouse of a capturing manager
Mouse(x, y, hiword) == [pt |-> POINT(x, y), hiword |-> hiword, injected |-> FALSE]

\* the points of the mouse events: InsidePoint, the point 500 to its right
\* and 9999 above it, points 127 and 128 away from it, a point next to it,
\* and a point outside the capture region
MousePoints ==
    {InsidePoint, POINT(10500, 1), POINT(10127, 9873), POINT(10128, 9872),
     POINT(9999, 10001), OutsidePoint}

\* the mouse events of the mouse specification: moves and left-button
\* messages at every point, wheel and X-button messages at InsidePoint, an
\* injected move, and a move over another window
MouseEvents ==
    {[wParam |-> w, data |-> Mouse(p.x, p.y, 0), hit |-> hwnd_] :
        w \in {"WM_MOUSEMOVE", "WM_LBUTTONDOWN", "WM_LBUTTONUP"},
        p \in MousePoints}
    \cup {[wParam |-> w, data |-> Mouse(10000, 10000, h), hit |-> hwnd_] :
            w \in {"WM_MOUSEWHEEL", "WM_MOUSEHWHEEL"}, h \in {120, 65296, 32767}}
    \cup {[wParam |-> w, data |-> Mouse(10000, 10000, 2), hit |-> hwnd_] :
            w \in {"WM_XBUTTONDOWN", "WM_XBUTTONUP"}}
    \cup {[wParam |-> "WM_MOUSEMOVE",
           data |-> [Mouse(10500, 1, 0) EXCEPT !.injected = TRUE], hit |-> hwnd_],
          [wParam |-> "WM_MOUSEMOVE", data |-> Mouse(10500, 1, 0),
           hit |-> otherWindow]}

MouseEvent == \E ev \in MouseEvents : MouseProc(ev.wParam, ev.data, ev.hit)

\* setAbsoluteMode(absolute), with the call on record
SetAbsoluteMode(absolute) ==
    /\ managers' = [managers EXCEPT ![1] = setAbsoluteMode(Called(@), absolute)]
    /\ menuRun' = [menuRun EXCEPT !.run = FALSE, !.shown = 0]
    /\ call' = [fn |-> "setAbsoluteMode", absolute |-> absolute]
    /\ UNCHANGED <<instance_, heldKeys, streamerVars, configVars, result>>

NextMouse ==
    \/ MouseEvent
    \/ \E absolute \in BOOLEAN : SetAbsoluteMode(absolute)

SpecMouse == InitCapturing /\ [][NextMouse]_vars

\* the relative mouse reports the latest call handed to the streamer
MouseReports(m) == SelectSeq(m.sent, LAMBDA r : r.type = "Mouse")

\* C18: every relative mouse report a mouse event produces carries, as signed
\* bytes, dx = the event's x minus the anchor's x and dy = the event's y minus
\* the anchor's y, each limited to -127..127; the event 500 to the right of the
\* anchor and 9999 above it gives dx = 127 and dy = -127.
C18_RelativeDeltaClamped ==
    call.fn = "mouseProc"
        => \A i \in 1..Len(MouseReports(managers[1])) :
               LET report == MouseReports(managers[1])[i].report
                   anchor == managers[1].relativeAnchorPoint_
                   dx == call.data.pt.x - anchor.x
                   dy == call.data.pt.y - anchor.y
               IN  /\ FromByte(report[2])
                          = (IF dx < -127 THEN -127 ELSE IF dx > 127 THEN 127 ELSE dx)
                   /\ FromByte(report[3])
                          = (IF dy < -127 THEN -127 ELSE IF dy > 127 THEN 127 ELSE dy)
                   /\ (dx = 500 /\ dy = -9999
                          => FromByte(report[2]) = 127 /\ FromByte(report[3]) = -127)

\* C18 witness: relative capture is active, the event is 500 to the right of
\* the anchor and 9999 above it, and the report carries the bytes 127 and 129.
C18_Witness ==
    /\ call.fn = "mouseProc"
    /\ managers[1].relativeCaptureActive_
    /\ call.data.pt.x - managers[1].relativeAnchorPoint_.x = 500
    /\ call.data.pt.y - managers[1].relativeAnchorPoint_.y = -9999
    /\ Len(MouseReports(managers[1])) = 1
    /\ MouseReports(managers[1])[1].report[2] = 127
    /\ MouseReports(managers[1])[1].report[3] = 129


\* ------------------------------------------------- the absolute mapping
\* the video viewports: their left-top corner and their extents, from one
\* pixel to a full-HD window, odd and even
ViewportOrigin == POINT(100, 50)
ViewportExtents == {<<1, 1>>, <<2, 2>>, <<3, 3>>, <<641, 481>>, <<1281, 721>>,
                    <<1920, 1080>>}
Viewports ==
    {RECT(ViewportOrigin.x, ViewportOrigin.y, ViewportOrigin.x + e[1],
          ViewportOrigin.y + e[2]) : e \in ViewportExtents}

\* the target resolutions setTargetResolution is called with
TargetResolutions == {<<1, 1>>, <<2, 2>>, <<3, 5>>, <<1280, 720>>, <<1920, 1080>>,
                      <<1921, 1081>>}

\* the places of a viewport the pointer is put at; the middle is the centre
\* pixel of a viewport of odd extents
Places(v) ==
    {"topLeft", "bottomRight", "outside"}
    \cup (IF (v.right - v.left) % 2 = 1 /\ (v.bottom - v.top) % 2 = 1
          THEN {"middle"} ELSE {})

PlacePoint(v, place) ==
    IF place = "topLeft" THEN POINT(v.left, v.top)
    ELSE IF place = "bottomRight" THEN POINT(v.right - 1, v.bottom - 1)
    ELSE IF place = "middle"
    THEN POINT(v.left + (v.right - v.left - 1) \div 2,
               v.top + (v.bottom - v.top - 1) \div 2)
    ELSE POINT(v.right, v.bottom)

AbsoluteCalls ==
    {[fn |-> "sendAbsoluteMouseState", viewport |-> v, target |-> t, place |-> p] :
        v \in Viewports, t \in TargetResolutions,
        p \in {"topLeft", "bottomRight", "outside", "middle"}}

InitAbsolute ==
    /\ StreamerInit
    /\ deviceOk
    /\ InputIdle
    /\ call \in AbsoluteCalls
    /\ call.place \in Places(call.viewport)
    /\ result = NoResult

\* sendAbsoluteMouseState(point, 0, 0, 0) on the capturing manager in absolute
\* mode, after setVideoViewport(viewport, true) and setTargetResolution
ApplyAbsolute ==
    /\ call.fn = "sendAbsoluteMouseState"
    /\ result = NoResult
    /\ result' = sendAbsoluteMouseState(
                     Called(setTargetResolution(
                                setVideoViewport(
                                    setAbsoluteMode(Capturing.m, TRUE),
                                    call.viewport, TRUE),
                                call.target[1], call.target[2])),
                     PlacePoint(call.viewport, call.place), 0, 0, 0).sent
    /\ UNCHANGED <<streamerVars, configVars, inputVars, call>>

SpecAbsolute == InitAbsolute /\ [][ApplyAbsolute]_vars

\* the coordinates of an absolute report, high byte first
AbsX(report) == report[2] * 256 + report[3]
AbsY(report) == report[4] * 256 + report[5]
Distance(a, b) == IF a >= b THEN a - b ELSE b - a

\* C19 as claimed: for every viewport and target resolution the top-left
\* point maps to (0, 0), the last contained point to the maximum coordinate
\* within one unit on both axes, and the centre point to half the maximum
\* within one unit on both axes.
C19_EndpointsAndMidpoint ==
    (call.fn = "sendAbsoluteMouseState" /\ result # NoResult /\ call.place # "outside")
        => /\ Len(result) = 1
           /\ LET x == AbsX(result[1].report)
                  y == AbsY(result[1].report)
              IN  /\ call.place = "topLeft" => x = 0 /\ y = 0
                  /\ call.place = "bottomRight"
                        => /\ Distance(x, kAbsoluteMax) <= 1
                           /\ Distance(y, kAbsoluteMax) <= 1
                  /\ call.place = "middle"
                        => /\ Distance(2 * x, kAbsoluteMax) <= 2
                           /\ Distance(2 * y, kAbsoluteMax) <= 2

\* the coordinate the amended claim allows on one axis with the given viewport
\* extent and target extent
AxisAsAmended(place, coordinate, extent, target) ==
    IF extent = 1 \/ target = 1 \/ place = "topLeft" THEN coordinate = 0
    ELSE IF place = "bottomRight" THEN coordinate = kAbsoluteMax
    ELSE /\ Distance(2 * coordinate, kAbsoluteMax) * (target - 1)
                <= kAbsoluteMax + (target - 1)
         /\ target % 2 = 1 => Distance(2 * coordinate, kAbsoluteMax) = 1

\* C19, amended: on each axis, with a viewport and a target of at least two
\* pixels, the top-left point maps to 0 and the last contained point to 32767
\* exactly, and the centre pixel of an odd viewport maps to within half a unit
\* of 16383.5 when the target extent is odd and otherwise to within half a
\* target pixel (16383.5 / (target - 1)) plus half a unit of it; with a
\* viewport or a target of one pixel every point maps to 0; a point outside
\* the viewport produces no report.
C19_EndpointsExactMidpointToHalfPixel ==
    (call.fn = "sendAbsoluteMouseState" /\ result # NoResult)
        => IF call.place = "outside" THEN result = <<>>
           ELSE /\ Len(result) = 1
                /\ result[1].type = "MouseAbsolute"
                /\ AxisAsAmended(call.place, AbsX(result[1].report),
                                 call.viewport.right - call.viewport.left,
                                 call.target[1])
                /\ AxisAsAmended(call.place, AbsY(result[1].report),
                                 call.viewport.bottom - call.viewport.top,
                                 call.target[2])

\* C19 witness: the centre of a 1281 x 721 viewport with a 1920 x 1080 target
\* maps to (16375, 16368).
C19_Witness ==
    /\ call.fn = "sendAbsoluteMouseState"
    /\ call.place = "middle"
    /\ call.viewport.right - call.viewport.left = 1281
    /\ call.target = <<1920, 1080>>
    /\ result # NoResult
    /\ Len(result) = 1
    /\ AbsX(result[1].report) = 16375
    /\ AbsY(result[1].report) = 16368


\* ------------------------------------------- two InputCaptureManager objects
\* a manager with its target window and capture region set, not enabled
Configured == setCaptureRegion(setTargetWindow(NewManager, hwnd_), CaptureRect, TRUE)

InitInstances ==
    /\ StreamerInit
    /\ deviceOk
    /\ call = NoCall
    /\ result = NoResult
    /\ managers = [i \in Instances |-> Configured]
    /\ instance_ = nullptr
    /\ heldKeys = {}
    /\ menuRun = NoRun

\* self.setEnabled(enabled), with the call on record; keyboardOk and mouseOk
\* say whether SetWindowsHookExW would return a hook
SetEnabled(self, enabled, keyboardOk, mouseOk) ==
    /\ LET done == setEnabled(Called(managers[self]), instance_, self, enabled,
                              keyboardOk, mouseOk)
       IN  /\ managers' = [managers EXCEPT ![self] = done.m]
           /\ instance_' = done.instance_
           /\ IF /\ done.m # Called(managers[self])
                 /\ (instance_ = self \/ done.instance_ = self)
              THEN heldKeys' = {} /\ menuRun' = NoRun
              ELSE UNCHANGED <<heldKeys, menuRun>>
    /\ call' = [fn |-> "setEnabled", self |-> self, enabled |-> enabled,
                keyboardOk |-> keyboardOk, mouseOk |-> mouseOk]
    /\ UNCHANGED <<streamerVars, configVars, result>>

\* key events while the managers are enabled and disabled
InstanceKeyEvents ==
    {[wParam |-> w, data |-> Key(vk), os |-> Inside] :
        w \in {"WM_KEYDOWN", "WM_KEYUP"}, vk \in {65, 66, VK_LSHIFT}}

InstanceKeyEvent ==
    \E ev \in InstanceKeyEvents : KeyboardProc(ev.wParam, ev.data, ev.os)

NextInstances ==
    \/ \E self \in Instances, enabled, keyboardOk, mouseOk \in BOOLEAN :
           SetEnabled(self, enabled, keyboardOk, mouseOk)
    \/ InstanceKeyEvent

SpecInstances == InitInstances /\ [][NextInstances]_vars

Enabled(ms) == {i \in Instances : ms[i].enabled_}

\* C20: at most one manager is enabled at any time, and an enabled manager is
\* the one registered in instance_; a setEnabled(true) by a manager that is
\* not enabled, made while another manager is registered or with a hook that
\* cannot be installed, leaves the caller not enabled and without hooks, and
\* leaves the registered other manager registered and exactly as it was.
C20_SingleHolder ==
    /\ [](/\ Cardinality(Enabled(managers)) <= 1
          /\ \A i \in Enabled(managers) : instance_ = i)
    /\ [][\A self \in Instances, keyboardOk, mouseOk \in BOOLEAN :
              (/\ SetEnabled(self, TRUE, keyboardOk, mouseOk)
               /\ ~managers[self].enabled_
               /\ \/ instance_ \notin {nullptr, self}
                  \/ ~keyboardOk
                  \/ ~mouseOk)
              => /\ ~managers'[self].enabled_
                 /\ managers'[self].keyboardHook_ = nullptr
                 /\ managers'[self].mouseHook_ = nullptr
                 /\ \A other \in Instances \ {self} :
                        /\ managers'[other] = managers[other]
                        /\ instance_ = other => instance_' = other]_vars

\* C20 witness: manager 1 is enabled and registered, and the latest
\* setEnabled call was manager 2's setEnabled(true) with both hooks
\* installable, which left manager 2 not enabled.
C20_Witness ==
    /\ instance_ = 1
    /\ managers[1].enabled_
    /\ call.fn = "setEnabled"
    /\ call.self = 2
    /\ call.enabled
    /\ call.keyboardOk
    /\ call.mouseOk
    /\ ~managers[2].enabled_


\* ------------------------------------- arming the chord and enabling capture
\* keyboardProc, lines 348-387, on the manager the hook thread finds in
\* instance_ (registered: instance_ is this manager)
keyboardProc(m, registered, wParam, data, os) ==
    IF registered /\ m.enabled_
    THEN LET within == os.cursorOk /\ isWithinCaptureBounds(m, os.cursor, os.hit)
             isChordKey == m.menuChordEnabled_ /\ isMenuChordKey(data.vkCode)
         IN  IF within \/ isChordKey
             THEN handleKeyboardEvent(Called(m), wParam, data, os)
             ELSE Called(m)
    ELSE m

\* the manager after the key-downs of left Ctrl, left Alt and the menu key,
\* with the cursor as os says
pressChord(m, registered, os) ==
    keyboardProc(
        keyboardProc(
            keyboardProc(m, registered, "WM_KEYDOWN", Key(VK_LCONTROL), os),
            registered, "WM_SYSKEYDOWN", Key(VK_LMENU), os),
        registered, "WM_SYSKEYDOWN", Key(kMenuHotkeyVirtualKey), os)

\* the key events of this specification: the chord keys and 'A', inside the
\* capture region and outside it
ArmingEvents ==
    {[wParam |-> w, data |-> Key(vk), os |-> os] :
        w \in {"WM_KEYDOWN", "WM_KEYUP"},
        vk \in {kMenuHotkeyVirtualKey, 65, VK_LCONTROL, VK_LMENU},
        os \in {Inside, Outside}}

ArmingEvent == \E ev \in ArmingEvents : KeyboardProc(ev.wParam, ev.data, ev.os)

\* the application's manager is enabled and disabled, with hooks that can and
\* cannot be installed, the chord is armed and disarmed, and keys are typed
NextArming ==
    \/ \E enabled, keyboardOk, mouseOk \in BOOLEAN :
           SetEnabled(1, enabled, keyboardOk, mouseOk)
    \/ \E enabled \in BOOLEAN : SetMenuChordEnabled(enabled)
    \/ ArmingEvent

SpecArming == InitInstances /\ [][NextArming]_vars

\* C21 as claimed: no setEnabled call changes menuChordEnabled_, and whenever
\* the chord is armed, idle and has a window to post to, pressing Ctrl, Alt
\* and the menu key posts one show-menu message, capture enabled or not.
C21_ChordIndependentOfEnable ==
    /\ [][\A enabled, keyboardOk, mouseOk \in BOOLEAN :
              SetEnabled(1, enabled, keyboardOk, mouseOk)
                  => managers'[1].menuChordEnabled_ = managers[1].menuChordEnabled_]_vars
    /\ [](\A os \in {Inside, Outside} :
              (/\ managers[1].menuChordEnabled_
               /\ ~managers[1].menuChordLatched_
               /\ managers[1].targetWindow_ # nullptr)
                  => ShowMenus(pressChord(managers[1], instance_ = 1, os)) = 1)

\* C21, amended: a setEnabled call that asks for the state the manager is
\* not in leaves menuChordEnabled_ false, whether or not the hooks could be
\* installed, and any other setEnabled call leaves it as it was; whenever
\* capture is enabled and the chord is armed, idle and has a window to post to,
\* pressing Ctrl, Alt and the menu key posts one show-menu message, with the
\* cursor inside the capture region or outside it; whenever capture is
\* disabled the manager has no keyboard hook and is not registered, and the
\* same key presses post nothing and leave the manager as it was.
C21_EnableDisarmsChord ==
    /\ [][\A enabled, keyboardOk, mouseOk \in BOOLEAN :
              SetEnabled(1, enabled, keyboardOk, mouseOk)
                  => IF enabled # managers[1].enabled_
                     THEN ~managers'[1].menuChordEnabled_
                     ELSE managers'[1].menuChordEnabled_
                              = managers[1].menuChordEnabled_]_vars
    /\ [](\A os \in {Inside, Outside} :
              /\ (/\ managers[1].enabled_
                  /\ managers[1].menuChordEnabled_
                  /\ ~managers[1].menuChordLatched_
                  /\ managers[1].targetWindow_ # nullptr)
                     => /\ instance_ = 1
                        /\ ShowMenus(pressChord(managers[1], instance_ = 1, os)) = 1
              /\ ~managers[1].enabled_
                     => /\ managers[1].keyboardHook_ = nullptr
                        /\ instance_ # 1
                        /\ pressChord(managers[1], instance_ = 1, os) = managers[1])

\* C21 witness: capture was enabled by the latest setEnabled call, the chord
\* was armed again after it, and the chord, pressed since, is latched with its
\* show-menu message posted.
C21_Witness ==
    /\ call.fn = "setEnabled"
    /\ call.enabled
    /\ managers[1].enabled_
    /\ managers[1].menuChordEnabled_
    /\ managers[1].menuChordLatched_
    /\ ShowMenus(managers[1]) = 1


\* --------------------------------- the calls of the application and the hooks
\* setCaptureRegion(screenRect, valid), with the call on record
SetCaptureRegion(screenRect, valid) ==
    /\ managers' = [managers EXCEPT ![1] =
                        setCaptureRegion(Called(@), screenRect, valid)]
    /\ menuRun' = [menuRun EXCEPT !.run = FALSE, !.shown = 0]
    /\ call' = [fn |-> "setCaptureRegion", screenRect |-> screenRect,
                valid |-> valid]
    /\ UNCHANGED <<instance_, heldKeys, streamerVars, configVars, result>>

\* what updateInputCaptureBounds passes (Application.cpp, lines 1189-1216):
\* no rectangle, or the client rectangle with the window active or not
CaptureRegions ==
    {[screenRect |-> RECT(0, 0, 0, 0), valid |-> FALSE],
     [screenRect |-> CaptureRect, valid |-> FALSE],
     [screenRect |-> CaptureRect, valid |-> TRUE]}

\* key events: 'A' and left Ctrl go down and up with the cursor inside the
\* capture region; some events are injected, or come with the cursor outside
\* the region, over another window, or unknown
ControlKeyEvents ==
    {[wParam |-> w, data |-> Key(vk), os |-> Inside] :
        w \in {"WM_KEYDOWN", "WM_KEYUP"}, vk \in {65, VK_LCONTROL}}
    \cup {[wParam |-> "WM_KEYDOWN", data |-> Key(vk), os |-> os] :
            vk \in {65, VK_LCONTROL},
            os \in {Outside, [Inside EXCEPT !.hit = otherWindow],
                    [Inside EXCEPT !.cursorOk = FALSE]}}
    \cup {[wParam |-> "WM_KEYDOWN", data |-> [Key(vk) EXCEPT !.injected = TRUE],
           os |-> Inside] : vk \in {65, VK_LCONTROL}}

\* mouse events: moves and left-button messages at InsidePoint, at a point
\* next to it and outside the capture region, a move over another window, and
\* an injected move and button-down
ControlMouseEvents ==
    {[wParam |-> w, data |-> Mouse(p.x, p.y, 0), hit |-> hwnd_] :
        w \in {"WM_MOUSEMOVE", "WM_LBUTTONDOWN", "WM_LBUTTONUP"},
        p \in {InsidePoint, POINT(10003, 9998), OutsidePoint}}
    \cup {[wParam |-> "WM_MOUSEMOVE", data |-> Mouse(10003, 9998, 0),
           hit |-> otherWindow]}
    \cup {[wParam |-> w, data |-> [Mouse(10003, 9998, 0) EXCEPT !.injected = TRUE],
           hit |-> hwnd_] : w \in {"WM_MOUSEMOVE", "WM_LBUTTONDOWN"}}

ControlKeyEvent ==
    \E ev \in ControlKeyEvents : KeyboardProc(ev.wParam, ev.data, ev.os)

ControlMouseEvent ==
    \E ev \in ControlMouseEvents : MouseProc(ev.wParam, ev.data, ev.hit)

NextControl ==
    \/ \E enabled, keyboardOk, mouseOk \in BOOLEAN :
           SetEnabled(1, enabled, keyboardOk, mouseOk)
    \/ \E absolute \in BOOLEAN : SetAbsoluteMode(absolute)
    \/ \E region \in CaptureRegions :
           SetCaptureRegion(region.screenRect, region.valid)
    \/ \E enabled \in BOOLEAN : SetMenuChordEnabled(enabled)
    \/ ControlKeyEvent
    \/ ControlMouseEvent

SpecControl == InitInstances /\ [][NextControl]_vars

\* no key in the key table, no overflow, no modifier or button flag set, no
\* last point
Transient(m) ==
    [activeKeys_ |-> m.activeKeys_, keyboardOverflow_ |-> m.keyboardOverflow_,
     flags |-> FlagsSet(m), hasLastMousePoint_ |-> m.hasLastMousePoint_]

NoTransient ==
    [activeKeys_ |-> <<>>, keyboardOverflow_ |-> FALSE, flags |-> {},
     hasLastMousePoint_ |-> FALSE]

\* C22: a setEnabled(true) call that takes the manager from disabled to
\* enabled leaves it registered with both hooks, activeKeys_ empty,
\* keyboardOverflow_ false, every modifier and button flag false and
\* hasLastMousePoint_ false; every setEnabled(false) call leaves the manager
\* disabled with the same state cleared, relative capture inactive, the cursor
\* neither hidden nor clipped, no hook, and instance_ not this manager.
C22_EnableAndDisableReset ==
    /\ [][\A keyboardOk, mouseOk \in BOOLEAN :
              (/\ ~managers[1].enabled_
               /\ managers'[1].enabled_
               /\ SetEnabled(1, TRUE, keyboardOk, mouseOk))
              => /\ Transient(managers'[1]) = NoTransient
                 /\ instance_' = 1
                 /\ managers'[1].keyboardHook_ # nullptr
                 /\ managers'[1].mouseHook_ # nullptr]_vars
    /\ [][\A keyboardOk, mouseOk \in BOOLEAN :
              SetEnabled(1, FALSE, keyboardOk, mouseOk)
              => /\ ~managers'[1].enabled_
                 /\ Transient(managers'[1]) = NoTransient
                 /\ ~managers'[1].relativeCaptureActive_
                 /\ ~managers'[1].cursorHidden_
                 /\ ~managers'[1].cursorClipped_
                 /\ managers'[1].keyboardHook_ = nullptr
                 /\ managers'[1].mouseHook_ = nullptr
                 /\ instance_' # 1]_vars

\* C22 witness: the latest call was a setEnabled(false) that disabled an
\* enabled manager (it emitted the all-zero keyboard report of the reset), and
\* the manager is disabled, unregistered and without transient state.
C22_Witness ==
    /\ call.fn = "setEnabled"
    /\ ~call.enabled
    /\ managers[1].sent = <<[type |-> "Keyboard", report |-> ZeroReport]>>
    /\ ~managers[1].enabled_
    /\ instance_ = nullptr
    /\ Transient(managers[1]) = NoTransient


\* a pointer event that handleMouseEvent accepts: not injected, inside the
\* capture region and over the target window
Accepted(m, ev) ==
    /\ ~ev.data.injected
    /\ isWithinCaptureBounds(m, ev.data.pt, ev.hit)

\* C23: a setAbsoluteMode(true) call made while relative capture is active
\* leaves the manager in absolute mode with relative capture inactive, the
\* cursor not hidden and the cursor clip released; a setAbsoluteMode(false)
\* call made in absolute mode leaves relative capture inactive; relative
\* capture becomes active only in a mouse event that is not injected and lies
\* inside the capture bounds, and in relative mode every such event leaves it
\* active.
C23_ModeSwitch ==
    /\ [][(managers[1].relativeCaptureActive_ /\ SetAbsoluteMode(TRUE))
          => /\ managers'[1].absoluteMode_
             /\ ~managers'[1].relativeCaptureActive_
             /\ ~managers'[1].cursorHidden_
             /\ ~managers'[1].cursorClipped_]_vars
    /\ [][(managers[1].absoluteMode_ /\ SetAbsoluteMode(FALSE))
          => /\ ~managers'[1].absoluteMode_
             /\ ~managers'[1].relativeCaptureActive_]_vars
    /\ [][(~managers[1].relativeCaptureActive_ /\ managers'[1].relativeCaptureActive_)
          => \E ev \in ControlMouseEvents :
                 /\ Accepted(managers[1], ev)
                 /\ MouseProc(ev.wParam, ev.data, ev.hit)]_vars
    /\ [][\A ev \in ControlMouseEvents :
              (/\ ~managers[1].absoluteMode_
               /\ Accepted(managers[1], ev)
               /\ MouseProc(ev.wParam, ev.data, ev.hit))
              => managers'[1].relativeCaptureActive_]_vars

\* C23 witness: the latest call was setAbsoluteMode(true); the manager is
\* enabled in absolute mode, relative capture, which had been anchored at a
\* point of the capture region, is inactive, and the cursor is neither hidden
\* nor clipped.
C23_Witness ==
    /\ call.fn = "setAbsoluteMode"
    /\ call.absolute
    /\ managers[1].enabled_
    /\ managers[1].absoluteMode_
    /\ managers[1].relativeAnchorPoint_ = InsidePoint
    /\ ~managers[1].relativeCaptureActive_
    /\ ~managers[1].cursorHidden_
    /\ ~managers[1].cursorClipped_


\* C24: every setCaptureRegion(rect, false) call leaves relative capture
\* inactive and hasLastMousePoint_ false; while the capture region is not
\* valid relative capture is inactive, and every mouse event handled then
\* emits no report and leaves relative capture inactive and
\* hasLastMousePoint_ false.
C24_InvalidRegionStopsPointer ==
    /\ [][\A region \in CaptureRegions :
              (~region.valid /\ SetCaptureRegion(region.screenRect, region.valid))
              => /\ ~managers'[1].captureBoundsValid_
                 /\ ~managers'[1].relativeCaptureActive_
                 /\ ~managers'[1].hasLastMousePoint_]_vars
    /\ [](~managers[1].captureBoundsValid_ => ~managers[1].relativeCaptureActive_)
    /\ [][\A ev \in ControlMouseEvents :
              (~managers[1].captureBoundsValid_ /\ MouseProc(ev.wParam, ev.data, ev.hit))
              => /\ managers'[1].sent = <<>>
                 /\ ~managers'[1].relativeCaptureActive_
                 /\ ~managers'[1].hasLastMousePoint_]_vars

\* C24 witness: the capture region was set invalid with the client rectangle
\* kept, and the latest call handled a genuine left-button press at a point
\* of that rectangle over the target window in relative mode: no report,
\* relative capture inactive.
C24_Witness ==
    /\ call.fn = "mouseProc"
    /\ call.wParam = "WM_LBUTTONDOWN"
    /\ ~call.data.injected
    /\ call.data.pt = InsidePoint
    /\ call.hit = hwnd_
    /\ managers[1].enabled_
    /\ ~managers[1].absoluteMode_
    /\ ~managers[1].captureBoundsValid_
    /\ managers[1].captureBounds_ = CaptureRect
    /\ managers[1].sent = <<>>
    /\ ~managers[1].relativeCaptureActive_


\* the point lies outside the capture rectangle of the manager, or the window
\* under it is not the manager's target window
OutsideOrElsewhere(m, pt, hit) ==
    \/ pt.x < m.captureBounds_.left \/ pt.x >= m.captureBounds_.right
    \/ pt.y < m.captureBounds_.top \/ pt.y >= m.captureBounds_.bottom
    \/ (m.targetWindow_ # nullptr /\ hit # m.targetWindow_)

\* C25: a key event or a mouse event flagged as injected leaves every member
\* of the manager as it was and hands nothing to the streamer or to the
\* window; a mouse event whose point is outside the capture rectangle or over
\* a window other than the target window emits no report; a key event that
\* comes with the cursor unknown, outside the capture rectangle or over a
\* window other than the target window emits no report unless the chord is
\* armed and the key is Ctrl, Alt or the menu key.
C25_InjectedAndOutsideIgnored ==
    /\ [][\A ev \in ControlKeyEvents :
              (ev.data.injected /\ KeyboardProc(ev.wParam, ev.data, ev.os))
              => managers'[1] = Called(managers[1])]_vars
    /\ [][\A ev \in ControlMouseEvents :
              (ev.data.injected /\ MouseProc(ev.wParam, ev.data, ev.hit))
              => managers'[1] = Called(managers[1])]_vars
    /\ [][\A ev \in ControlMouseEvents :
              (/\ OutsideOrElsewhere(managers[1], ev.data.pt, ev.hit)
               /\ MouseProc(ev.wParam, ev.data, ev.hit))
              => managers'[1].sent = <<>>]_vars
    /\ [][\A ev \in ControlKeyEvents :
              (/\ ~(managers[1].menuChordEnabled_ /\ isMenuChordKey(ev.data.vkCode))
               /\ \/ ~ev.os.cursorOk
                  \/ OutsideOrElsewhere(managers[1], ev.os.cursor, ev.os.hit)
               /\ KeyboardProc(ev.wParam, ev.data, ev.os))
              => managers'[1].sent = <<>>]_vars

\* C25 witness: with relative capture active, the latest call handled an
\* injected left-button press at a point of the capture region over the target
\* window: no button flag is set and nothing was emitted.
C25_Witness ==
    /\ call.fn = "mouseProc"
    /\ call.wParam = "WM_LBUTTONDOWN"
    /\ call.data.injected
    /\ isWithinCaptureBounds(managers[1], call.data.pt, call.hit)
    /\ managers[1].enabled_
    /\ managers[1].relativeCaptureActive_
    /\ ~managers[1].leftButtonDown_
    /\ managers[1].sent = <<>>



\* ------------------------------------------------- the worker's write loop
\* the step in which the worker is done with the frame it dequeued
FrameEnds == packet # NoPacket /\ packet' = NoPacket /\ ~terminated'

\* C26: when the worker is done with a frame it dequeued, either every byte
\* of the frame was handed to WriteFile's device (offset reached the frame's
\* size) or the step leaves the port closed and marked dirty; a frame is
\* dropped unwritten only with the port closed.
C26_FrameWrittenOrPortClosed ==
    [][FrameEnds
       => \/ wpc = "wrote" /\ offset = PacketSize(packet)
          \/ portHandle_' = INVALID_HANDLE_VALUE /\ portDirty_'
          \/ wpc = "handle" /\ portHandle_ = INVALID_HANDLE_VALUE]_vars



\* ------------------------------------------------- the backlog of the port
\* constexpr DWORD kSerialBacklogThresholdBytes = 16 * 1024
kSerialBacklogThresholdBytes == 16384

\* variant of the check after a write that reconnects at the threshold already
commStatusAtThreshold(clearOk, cbOutQue) ==
    IF ~clearOk THEN "ClearCommError failed"
    ELSE IF cbOutQue >= kSerialBacklogThresholdBytes THEN "backlog"
    ELSE "ok"

\* lines 1785-1806: what the checks after a write that wrote something come
\* to, given whether ClearCommError succeeded and the status.cbOutQue it
\* reported
commStatus(clearOk, cbOutQue) ==
    IF ~clearOk THEN "ClearCommError failed"
    ELSE IF cbOutQue > kSerialBacklogThresholdBytes THEN "backlog"
    ELSE "ok"

\* the bytes the port has pending, as ClearCommError will report them: none,
\* the threshold, one more, and four times the threshold
Backlogs == {0, kSerialBacklogThresholdBytes, kSerialBacklogThresholdBytes + 1,
             4 * kSerialBacklogThresholdBytes}

\* the port's answer to the next ClearCommError changes
DeviceBacklog(clearOk, cbOutQue) ==
    /\ ~terminated
    /\ wpc # "wrote"
    /\ call' = [fn |-> "ClearCommError", ok |-> clearOk, cbOutQue |-> cbOutQue]
    /\ UNCHANGED <<streamerVars, configVars, inputVars, result>>

\* the worker with ClearCommError answering as the port stands
WorkerNextQueried ==
    \/ WorkerExitRequested
    \/ WorkerShutdown
    \/ WorkerReconnectFailed
    \/ WorkerReconnected
    \/ WorkerDequeue
    \/ WorkerReadHandle
    \/ WorkerSleep
    \/ WriteFileFails
    \/ WriteFileZero
    \/ \E written \in WrittenChoices(PacketSize(packet) - offset) :
           WriteFileWrites(written, commStatus(call.ok, call.cbOutQue))
    \/ WorkerIoError
    \/ WorkerIoDone

InitBacklog ==
    /\ StreamerInit
    /\ InputIdle
    /\ call = [fn |-> "ClearCommError", ok |-> TRUE, cbOutQue |-> 0]
    /\ result = NoResult

NextBacklog ==
    \/ WorkerNextQueried
    \/ UiStart
    \/ UiStop
    \/ LifecycleSteps
    \/ \E type \in HidTypes : PublishReport(type)
    \/ ReportEnqueueLocked
    \/ \E clearOk \in BOOLEAN, cbOutQue \in Backlogs : DeviceBacklog(clearOk, cbOutQue)

SpecBacklog == InitBacklog /\ [][NextBacklog]_vars

\* a WriteFile call that wrote at least one byte, with the check after it
WroteSomething == wpc = "write" /\ wpc' = "wrote" /\ offset' > offset

\* C27: after a WriteFile call that wrote at least one byte and a
\* ClearCommError that succeeded, the worker's next step closes the port,
\* marks it dirty and ends the frame exactly when the reported backlog is above
\* 16384 bytes, and with a backlog of 16384 bytes or less it leaves the port
\* open and the dirty flag as it was; the worker's pass through the dirty
\* branch that follows a backlog reconnect leaves the queues empty, and with
\* an openable device the port open and the flag clear.
C27_BacklogReconnect ==
    /\ [][(WroteSomething /\ call.ok)
          => ioResult' = (IF call.cbOutQue > 16 * 1024 THEN "backlog" ELSE "ok")]_vars
    /\ [][(wpc = "wrote" /\ ioResult = "backlog" /\ wpc' # wpc /\ ~terminated')
          => /\ portHandle_' = INVALID_HANDLE_VALUE
             /\ portDirty_'
             /\ wpc' = "wait"
             /\ packet' = NoPacket]_vars
    /\ [][(wpc = "wrote" /\ ioResult = "ok" /\ wpc' # wpc /\ ~terminated')
          => /\ portHandle_ # INVALID_HANDLE_VALUE
             /\ portHandle_' = portHandle_
             /\ portDirty_' = portDirty_]_vars
    /\ [][(DirtyIteration /\ outage.cause = "backlog")
          => /\ QueuedCount(Queues') = 0
             /\ deviceOk => (portHandle_' # INVALID_HANDLE_VALUE /\ ~portDirty_')]_vars

\* C27 witness: the port is open and clean again after a pass through the
\* dirty branch that followed a backlog reconnect and discarded a queued
\* frame, and the port's backlog stands above the threshold.
C27_Witness ==
    /\ dirtyPass.cause = "backlog"
    /\ dirtyPass.discarded > 0
    /\ dirtyPass.opened
    /\ portHandle_ # INVALID_HANDLE_VALUE
    /\ ~portDirty_
    /\ call.cbOutQue = kSerialBacklogThresholdBytes + 1


\* ------------------------------------------------------------- stop() ends
\* the scheduler runs the worker thread and the thread inside start() or
\* stop() whenever they can take a step
FairStop == Spec /\ WF_vars(WorkerNext) /\ WF_vars(LifecycleSteps)

\* C28: with the worker thread and the calling thread scheduled fairly, every
\* stop() call that found the streamer running returns; by then the worker
\* has seen exitRequested_, flushed the queues, closed the port and returned
\* and has been joined, and at the return the queues are empty and the port is
\* closed; while a stop() has returned and no start() was called since,
\* running_ is false, so that a further stop() returns at once.
C28_StopTerminates ==
    /\ (stopPc # "idle") ~> (stopPc = "idle" /\ stopReturned)
    /\ [][(stopPc = "stop_join" /\ stopPc' # stopPc /\ ~terminated')
          => /\ wpc = "done"
             /\ exitRequested_
             /\ portHandle_ = INVALID_HANDLE_VALUE]_vars
    /\ [][(stopPc = "stop_flush" /\ stopPc' = "idle" /\ ~terminated')
          => /\ stopReturned'
             /\ QueuedCount(Queues') = 0
             /\ totalQueued_' = 0
             /\ portHandle_' = INVALID_HANDLE_VALUE
             /\ ~WorkerAlive'
             /\ worker_' = "empty"]_vars
    /\ [](stopReturned => ~running_)
    /\ [][(StopCall /\ ~running_) => UNCHANGED vars]_vars

\* C28 witness: a stop() has returned on a streamer that had opened the port
\* and enqueued frames: the worker is gone, the queues are empty and the port
\* is closed.
C28_Witness ==
    /\ stopReturned
    /\ stopPc = "idle"
    /\ nextId >= 2
    /\ ~running_
    /\ worker_ = "empty"
    /\ ~WorkerAlive
    /\ QueuedCount(Queues) = 0
    /\ portHandle_ = INVALID_HANDLE_VALUE


\* ------------------------------------------------------- the key table
\* the HID usages of the eight modifier keys, Left Control .. Right GUI
ModifierUsages == 224..231

\* the key events of the keyboard specification that are events of a
\* modifier key
ModifierEvents == {ev \in KeyboardEvents : isModifierVirtualKey(ev.data.vkCode)}

\* C29: activeKeys_ never holds more than six usages, never holds a usage
\* twice and never holds the usage of a modifier key; every keyboard report
\* has 0 in byte 1; and an event of a modifier key leaves activeKeys_ and
\* keyboardOverflow_ as they were, so that the report it emits differs from
\* the report of the state before in byte 0 at most.
C29_KeyTableInvariant ==
    /\ [](\A i \in Instances :
              /\ Len(managers[i].activeKeys_) <= 6
              /\ Cardinality(Elements(managers[i].activeKeys_))
                     = Len(managers[i].activeKeys_)
              /\ Elements(managers[i].activeKeys_) \cap ModifierUsages = {}
              /\ \A k \in 1..Len(managers[i].sent) :
                     managers[i].sent[k].type = "Keyboard"
                         => /\ Len(managers[i].sent[k].report) = 8
                            /\ managers[i].sent[k].report[2] = 0)
    /\ [][\A ev \in ModifierEvents :
              KeyboardProc(ev.wParam, ev.data, ev.os)
              => /\ managers'[1].activeKeys_ = managers[1].activeKeys_
                 /\ managers'[1].keyboardOverflow_ = managers[1].keyboardOverflow_
                 /\ heldKeys' = heldKeys
                 /\ \A k \in 1..Len(KeyboardReports(managers'[1])) :
                        \A b \in 2..8 :
                            KeyboardReports(managers'[1])[k].report[b]
                                = keyboardReport(managers[1])[b]]_vars

\* C29 witness: six keys are in the key table, left Shift is held, and the
\* latest report carries 0x02 in byte 0, 0 in byte 1 and the six usages.
C29_Witness ==
    /\ Len(managers[1].activeKeys_) = 6
    /\ managers[1].leftShift_
    /\ ~managers[1].keyboardOverflow_
    /\ Len(KeyboardReports(managers[1])) = 1
    /\ KeyboardReports(managers[1])[1].report[1] = 2
    /\ KeyboardReports(managers[1])[1].report[2] = 0
    /\ KeyBytes(KeyboardReports(managers[1])[1].report)
           = Elements(managers[1].activeKeys_)


\* ------------------------------- the application's use of the menu chord
\* Application::registerMenuHotkey with a window (Application.cpp, lines
\* 612-640): unregisterMenuHotkey first, and the chord is armed before
\* RegisterHotKey is tried
registerMenuHotkey(m) == setMenuChordEnabled(setMenuChordEnabled(m, FALSE), TRUE)

\* Application::unregisterMenuHotkey (Application.cpp, lines 652-660)
unregisterMenuHotkey(m) == setMenuChordEnabled(m, FALSE)

\* what the window is like when updateInputCaptureBounds looks at it: visible
\* with a client rectangle or not, active or not, and with a video viewport
\* or without one
WindowStates ==
    [visible : BOOLEAN, windowActive : BOOLEAN, viewportValid : BOOLEAN]

\* Application::updateInputCaptureBounds (Application.cpp, lines 1189-1240);
\* the client rectangle is CaptureRect and the video fills it
updateInputCaptureBounds(m, w) ==
    IF ~w.visible
    THEN setVideoViewport(setCaptureRegion(m, RECT(0, 0, 0, 0), FALSE),
                          RECT(0, 0, 0, 0), FALSE)
    ELSE LET m1 == setCaptureRegion(m, CaptureRect, w.windowActive)
         IN  IF ~w.viewportValid
             THEN setVideoViewport(m1, RECT(0, 0, 0, 0), FALSE)
             ELSE setVideoViewport(m1, CaptureRect,
                                   w.viewportValid /\ w.windowActive)

\* WM_SETFOCUS, and WM_ACTIVATEAPP for an activation (Application.cpp, lines
\* 265-269 and 275-280)
FocusGained(w) ==
    /\ managers' = [managers EXCEPT ![1] =
                        updateInputCaptureBounds(registerMenuHotkey(Called(@)), w)]
    /\ menuRun' = [menuRun EXCEPT !.run = FALSE, !.shown = 0]
    /\ call' = [fn |-> "WM_SETFOCUS", window |-> w]
    /\ UNCHANGED <<instance_, heldKeys, streamerVars, configVars, result>>

\* WM_KILLFOCUS, and WM_ACTIVATEAPP for a deactivation (Application.cpp, lines
\* 270-275 and 281-285)
FocusLost(w) ==
    /\ managers' = [managers EXCEPT ![1] =
                        updateInputCaptureBounds(
                            clearModifierState(unregisterMenuHotkey(Called(@))), w)]
    /\ menuRun' = [menuRun EXCEPT !.run = FALSE, !.shown = 0]
    /\ call' = [fn |-> "WM_KILLFOCUS", window |-> w]
    /\ UNCHANGED <<instance_, heldKeys, streamerVars, configVars, result>>

\* Application::setInputCaptureEnabled with a value that differs from the
\* setting, and applyInputCaptureSetting (Application.cpp, lines 819-830 and
\* 752-765). The setting is true whenever the manager is enabled, so an
\* enabled manager is asked to disable; registered is menuHotkeyRegistered_,
\* the outcome of the latest RegisterHotKey.
SetInputCaptureEnabled(enabled, registered, keyboardOk, mouseOk) ==
    /\ managers[1].enabled_ => ~enabled
    /\ LET m == Called(managers[1])
           done == setEnabled(setAbsoluteMode(m, TRUE), instance_, 1, enabled,
                              keyboardOk, mouseOk)
       IN  /\ managers' = [managers EXCEPT ![1] =
                               setMenuChordEnabled(done.m, registered)]
           /\ instance_' = done.instance_
           /\ heldKeys' = IF done.m.enabled_ # m.enabled_ THEN {} ELSE heldKeys
           /\ menuRun' = IF done.m.enabled_ # m.enabled_ THEN NoRun
                         ELSE [menuRun EXCEPT !.run = FALSE, !.shown = 0]
    /\ call' = [fn |-> "setInputCaptureEnabled", enabled |-> enabled,
                registered |-> registered, keyboardOk |-> keyboardOk,
                mouseOk |-> mouseOk]
    /\ UNCHANGED <<streamerVars, configVars, result>>

\* keyboardProc, lines 348-387, for a key event the system hands to the hook
\* of the application's manager, with the call on record and with it whether
\* the chord was latched when the event came
KeyboardProcOnRecord(wParam, data, os) ==
    /\ instance_ = 1
    /\ managers[1].enabled_
    /\ managers[1].keyboardHook_ # nullptr
    /\ LET m == Called(managers[1])
           handled == \/ shouldConsumeKeyboard(os)
                      \/ m.menuChordEnabled_ /\ isMenuChordKey(data.vkCode)
           after == keyboardProc(m, TRUE, wParam, data, os)
       IN  /\ managers' = [managers EXCEPT ![1] = after]
           /\ heldKeys' = IF handled THEN heldAfter(heldKeys, m, wParam, data, os)
                          ELSE heldKeys
           /\ menuRun' = runAfter(menuRun, m, after, wParam, data)
    /\ call' = [fn |-> "keyboardProc", wParam |-> wParam, data |-> data,
                os |-> os, latched |-> managers[1].menuChordLatched_]
    /\ UNCHANGED <<instance_, streamerVars, configVars, result>>

ApplicationKeyEvent ==
    \E ev \in ChordEvents : KeyboardProcOnRecord(ev.wParam, ev.data, ev.os)

NextApplication ==
    \/ ApplicationKeyEvent
    \/ \E w \in WindowStates : FocusGained(w)
    \/ \E w \in WindowStates : FocusLost(w)
    \/ \E enabled, registered, keyboardOk, mouseOk \in BOOLEAN :
           SetInputCaptureEnabled(enabled, registered, keyboardOk, mouseOk)

SpecApplication == InitCapturing /\ [][NextApplication]_vars

\* ------------------------------------------- leaving the latched chord
\* the key a Ctrl or Alt event is an event of, its generic code resolved to
\* the left-hand or right-hand key as the system reports it
ResolvedKey(ev) ==
    IF ev.data.vkCode \in {VK_CONTROL, VK_MENU}
    THEN IF ev.os.mapped # 0 THEN ev.os.mapped
         ELSE IF ev.data.vkCode = VK_CONTROL
              THEN (IF ev.data.extended THEN VK_RCONTROL ELSE VK_LCONTROL)
              ELSE (IF ev.data.extended THEN VK_RMENU ELSE VK_LMENU)
    ELSE ev.data.vkCode

\* the bit of a Ctrl or Alt key in byte 0 of the keyboard report
ModifierBit(vk) ==
    IF vk = VK_LCONTROL THEN 1
    ELSE IF vk = VK_LMENU THEN 4
    ELSE IF vk = VK_RCONTROL THEN 16
    ELSE 64

HasBit(byte, bit) == (byte \div bit) % 2 = 1

\* the releases of Ctrl and Alt among the key events of the menu-chord
\* specification
ModifierReleases ==
    {ev \in ChordEvents : /\ IsKeyUp(ev.wParam)
                          /\ isMenuModifierKey(ev.data.vkCode)
                          /\ ~ev.data.injected}

\* with the key of ev released, Ctrl and Alt are no longer both held
LeavesChord(m, ev) ==
    LET k == ResolvedKey(ev)
    IN  ~ /\ (m.leftCtrl_ /\ k # VK_LCONTROL) \/ (m.rightCtrl_ /\ k # VK_RCONTROL)
          /\ (m.leftAlt_ /\ k # VK_LMENU) \/ (m.rightAlt_ /\ k # VK_RMENU)

\* what the release of a modifier does to a latched chord: the latch is
\* cleared and one keyboard report is emitted whose byte 0 lacks the bit of
\* the released key
Unlatched(ev) ==
    /\ ~managers'[1].menuChordLatched_
    /\ Len(KeyboardReports(managers'[1])) = 1
    /\ ~HasBit(KeyboardReports(managers'[1])[1].report[1],
               ModifierBit(ResolvedKey(ev)))

requestCursorUncapture(m) == stopRelativeCapture(m, TRUE)

\* requestCursorUncapture(), with the call on record
RequestCursorUncapture ==
    /\ managers' = [managers EXCEPT ![1] = requestCursorUncapture(Called(@))]
    /\ menuRun' = [menuRun EXCEPT !.run = FALSE, !.shown = 0]
    /\ call' = [fn |-> "requestCursorUncapture"]
    /\ UNCHANGED <<instance_, heldKeys, streamerVars, configVars, result>>

\* mouseProc, lines 413-438, for a mouse event the system hands to the hook of
\* the application's manager, with the event on record and with it whether
\* the event started relative capture
MouseProcOnRecord(wParam, data, hit) ==
    /\ instance_ = 1
    /\ managers[1].enabled_
    /\ managers[1].mouseHook_ # nullptr
    /\ LET after == handleMouseEvent(Called(managers[1]), wParam, data, hit)
       IN  /\ managers' = [managers EXCEPT ![1] = after]
           /\ call' = [fn |-> "mouseProc", wParam |-> wParam, data |-> data,
                       hit |-> hit,
                       armed |-> /\ ~managers[1].relativeCaptureActive_
                                 /\ after.relativeCaptureActive_]
    /\ menuRun' = [menuRun EXCEPT !.run = FALSE, !.shown = 0]
    /\ UNCHANGED <<instance_, heldKeys, streamerVars, configVars, result>>

PointerEvent ==
    \E ev \in ControlMouseEvents : MouseProcOnRecord(ev.wParam, ev.data, ev.hit)

\* the client rectangle after the window moved to the right: the point
\* (10003, 9998) is in it, InsidePoint is not
MovedRect == RECT(10002, 0, 30002, 20000)

\* what updateInputCaptureBounds passes to setCaptureRegion before and after
\* the window moved
PointerRegions ==
    CaptureRegions \cup {[screenRect |-> MovedRect, valid |-> TRUE]}

\* the video viewports updateInputCaptureBounds passes: none, or the right
\* part of CaptureRect, which holds (10003, 9998) and not InsidePoint
PointerViewports ==
    {[viewport |-> RECT(0, 0, 0, 0), valid |-> FALSE],
     [viewport |-> RECT(10002, 0, 20000, 20000), valid |-> TRUE]}

\* setVideoViewport(viewport, valid), with the call on record
SetVideoViewport(viewport, valid) ==
    /\ managers' = [managers EXCEPT ![1] =
                        setVideoViewport(Called(@), viewport, valid)]
    /\ menuRun' = [menuRun EXCEPT !.run = FALSE, !.shown = 0]
    /\ call' = [fn |-> "setVideoViewport", viewport |-> viewport, valid |-> valid]
    /\ UNCHANGED <<instance_, heldKeys, streamerVars, configVars, result>>

\* the application's manager is enabled and disabled, switched between the
\* modes, given capture regions and viewports, asked to release the cursor
\* and to clear the modifiers, and the pointer moves and clicks
NextPointer ==
    \/ \E enabled, keyboardOk, mouseOk \in BOOLEAN :
           SetEnabled(1, enabled, keyboardOk, mouseOk)
    \/ \E absolute \in BOOLEAN : SetAbsoluteMode(absolute)
    \/ \E region \in PointerRegions :
           SetCaptureRegion(region.screenRect, region.valid)
    \/ \E v \in PointerViewports : SetVideoViewport(v.viewport, v.valid)
    \/ RequestCursorUncapture
    \/ ClearModifierState
    \/ PointerEvent

SpecPointer == InitInstances /\ [][NextPointer]_vars

\* the latest call was a pointer event that handleMouseEvent accepted
AfterAccepted ==
    /\ call.fn = "mouseProc"
    /\ ~call.data.injected
    /\ isWithinCaptureBounds(managers[1], call.data.pt, call.hit)

\* C31: the accepted pointer event that directly follows the event that
\* started relative capture produces no relative mouse report, and an accepted
\* pointer event that follows an accepted event which did not start the
\* capture, with the capture active, produces one.
C31_OneEventSuppressedAfterArming ==
    /\ [][\A ev \in ControlMouseEvents :
              (/\ AfterAccepted
               /\ call.armed
               /\ managers[1].relativeCaptureActive_
               /\ Accepted(managers[1], ev)
               /\ MouseProcOnRecord(ev.wParam, ev.data, ev.hit))
                  => MouseReports(managers'[1]) = <<>>]_vars
    /\ [][\A ev \in ControlMouseEvents :
              (/\ AfterAccepted
               /\ ~call.armed
               /\ managers[1].relativeCaptureActive_
               /\ Accepted(managers[1], ev)
               /\ MouseProcOnRecord(ev.wParam, ev.data, ev.hit))
                  => Len(MouseReports(managers'[1])) = 1]_vars


\* the absolute mouse reports the latest call handed to the streamer
AbsoluteReports(m) == SelectSeq(m.sent, LAMBDA r : r.type = "MouseAbsolute")

InRect(pt, rect) ==
    /\ pt.x >= rect.left /\ pt.x < rect.right
    /\ pt.y >= rect.top /\ pt.y < rect.bottom

\* pt is inside the video viewport where the manager has one, and inside the
\* capture bounds where it has none
InsideMappedRect(m, pt) ==
    /\ m.captureBoundsValid_
    /\ IF m.videoBoundsValid_ THEN InRect(pt, m.videoBounds_)
       ELSE InRect(pt, m.captureBounds_)

\* the 16-bit value of two report bytes, high byte first
Word(high, low) == high * 256 + low

\* C32: every absolute mouse report handed to the streamer has x and y in
\* 0..32767 and a buttons byte below 32; a pointer event produces one only
\* for a point inside the video viewport, or inside the capture bounds where
\* there is no viewport, and so does clearModifierState, whose report is for
\* lastMousePoint_.
C32_AbsoluteReportsInRange ==
    /\ [](\A k \in 1..Len(AbsoluteReports(managers[1])) :
              LET report == AbsoluteReports(managers[1])[k].report
              IN  /\ Len(report) = 7
                  /\ report[1] \in 0..31
                  /\ Word(report[2], report[3]) \in 0..kAbsoluteMax
                  /\ Word(report[4], report[5]) \in 0..kAbsoluteMax)
    /\ [][\A ev \in ControlMouseEvents :
              (/\ MouseProcOnRecord(ev.wParam, ev.data, ev.hit)
               /\ AbsoluteReports(managers'[1]) # <<>>)
                  => InsideMappedRect(managers[1], ev.data.pt)]_vars
    /\ [][(/\ ClearModifierState
           /\ AbsoluteReports(managers'[1]) # <<>>)
              => InsideMappedRect(managers[1], managers[1].lastMousePoint_)]_vars



\* ------------------------------------------------ the cross-queue counter
\* C33: in every state, each of which has the streamer's mutex free,
\* totalQueued_ is the number of frames in the three queues.
C33_CounterMatchesQueues ==
    totalQueued_ = Len(mouseQueue_) + Len(keyboardQueue_) + Len(microphoneQueue_)

\* C33 witness: the worker holds a frame it dequeued, a mouse frame is
\* queued, and a frame younger than that mouse frame is gone from the queues
\* without being the worker's; the worker takes mouse frames first, so the
\* younger frame was trimmed: enqueue, trim and dequeue have all moved the
\* counter.
C33_Witness ==
    /\ packet # NoPacket
    /\ totalQueued_ > 0
    /\ \E i \in Ids(mouseQueue_) : \E j \in (i + 1)..nextId :
          j \notin QueuedIds(Queues) /\ packet.id # j

\* C35: once a stop() call has returned and no start() was called after it,
\* the three queues are empty and totalQueued_ is 0.
C35_StoppedQueuesEmpty ==
    stopReturned => /\ mouseQueue_ = <<>>
                    /\ keyboardQueue_ = <<>>
                    /\ microphoneQueue_ = <<>>
                    /\ totalQueued_ = 0



\* C34: an enqueue of a keyboard report whose trim removes frames leaves the
\* frame it pushed in the queues.
C34_EnqueuedFrameSurvivesTrim ==
    [][(EnqueueStep /\ EnqueuedType = "Keyboard" /\ Dropped # {})
           => nextId' \in QueuedIds(Queues')]_vars



\* C36: in every state, each of which has no call and no hook callback of the
\* manager under way, active relative capture means that the manager is
\* enabled, in relative mode and has valid capture bounds.
C36_ActiveCaptureConsistent ==
    \A i \in Instances :
        managers[i].relativeCaptureActive_
            => /\ managers[i].enabled_
               /\ ~managers[i].absoluteMode_
               /\ managers[i].captureBoundsValid_

\* C36 witness: relative capture is active after the window moved: the latest
\* call gave the manager another valid capture region, and the anchor lies
\* outside it.
C36_Witness ==
    /\ call.fn = "setCaptureRegion"
    /\ call.valid
    /\ call.screenRect = MovedRect
    /\ managers[1].relativeCaptureActive_
    /\ ~InRect(managers[1].relativeAnchorPoint_, managers[1].captureBounds_)



\* C37: a requestCursorUncapture() call leaves enabled_ as it was, relative
\* capture inactive and relativeCaptureSuspended_ set; relative capture is
\* never active while the flag is set; and a pointer event that comes while
\* the flag is set leaves relative capture inactive, inside the capture
\* bounds or not.
C37_SuspendedStaysInactive ==
    /\ [][RequestCursorUncapture
              => /\ managers'[1].enabled_ = managers[1].enabled_
                 /\ ~managers'[1].relativeCaptureActive_
                 /\ managers'[1].relativeCaptureSuspended_]_vars
    /\ [](managers[1].relativeCaptureSuspended_
              => ~managers[1].relativeCaptureActive_)
    /\ [][\A ev \in ControlMouseEvents :
              (/\ managers[1].relativeCaptureSuspended_
               /\ MouseProcOnRecord(ev.wParam, ev.data, ev.hit))
                  => ~managers'[1].relativeCaptureActive_]_vars




\* C39: when capture is enabled, the chord is armed, a target window is set
\* and Ctrl and Alt are held, a key-down of the menu key that follows that
\* key's release (or is its first press) posts a show-menu message, whatever
\* key events and setMenuChordEnabled calls came before.
C39_FreshPressPosts ==
    [][(/\ ~menuRun.down
        /\ menuRun'.down
        /\ managers[1].enabled_
        /\ managers[1].menuChordEnabled_
        /\ managers[1].targetWindow_ # nullptr
        /\ (managers[1].leftCtrl_ \/ managers[1].rightCtrl_)
        /\ (managers[1].leftAlt_ \/ managers[1].rightAlt_))
       => ShowMenus(managers'[1]) >= 1]_vars



\* C40: a key event that comes while the cursor is outside the capture bounds
\* adds no usage to the key table, and the call emits no keyboard report
\* with a non-zero byte among bytes 2-7.
C40_OutsideKeyLeavesTableAlone ==
    [][\A ev \in ChordEvents :
          (/\ ev.os = Outside
           /\ KeyboardProc(ev.wParam, ev.data, ev.os))
          => /\ Elements(managers'[1].activeKeys_)
                    \subseteq Elements(managers[1].activeKeys_)
             /\ \A i \in 1..Len(KeyboardReports(managers'[1])) :
                    KeyBytes(KeyboardReports(managers'[1])[i].report) = {0}]_vars




\* ------------------------------------------- keys and buttons after release
\* key events and pointer events reach the hooks of the application's
\* manager in any order, in relative and in absolute mode
NextHeld ==
    \/ ApplicationKeyEvent
    \/ PointerEvent
    \/ \E absolute \in BOOLEAN : SetAbsoluteMode(absolute)

SpecHeld == InitCapturing /\ [][NextHeld]_vars

\* the latest call was the hook's for the release of a key that has a usage
\* and is no modifier
KeyReleased ==
    /\ call.fn = "keyboardProc"
    /\ IsKeyUp(call.wParam)
    /\ ~call.data.injected
    /\ ~isModifierVirtualKey(call.data.vkCode)
    /\ translateVirtualKeyToUsage(call.data.vkCode, call.data.scanCode,
                                  call.data.extended) # 0

\* the latest call was the hook's for the release of the left button
ButtonReleased ==
    /\ call.fn = "mouseProc"
    /\ call.wParam = "WM_LBUTTONUP"
    /\ ~call.data.injected

\* the mouse reports of both kinds the latest call handed to the streamer
PointerReports(m) ==
    SelectSeq(m.sent, LAMBDA r : r.type \in {"Mouse", "MouseAbsolute"})

\* C38: the call that follows the delivery of a key's release to the hook,
\* unless it is a key-down of that key, emits no keyboard report that lists
\* the key; and the call that follows the delivery of the left button's
\* release, unless it is that button's press, emits no mouse report with the
\* left-button bit set; wherever the cursor was when the release came.
C38_ReleasedNotReported ==
    /\ [][(/\ KeyReleased
           /\ ~(/\ call'.fn = "keyboardProc"
                /\ IsKeyDown(call'.wParam)
                /\ call'.data.vkCode = call.data.vkCode))
          => \A i \in 1..Len(KeyboardReports(managers'[1])) :
                 translateVirtualKeyToUsage(call.data.vkCode, call.data.scanCode,
                                            call.data.extended)
                     \notin KeyBytes(KeyboardReports(managers'[1])[i].report)]_vars
    /\ [][(/\ ButtonReleased
           /\ ~(/\ call'.fn = "mouseProc"
                /\ call'.wParam = "WM_LBUTTONDOWN"))
          => \A i \in 1..Len(PointerReports(managers'[1])) :
                 PointerReports(managers'[1])[i].report[1] % 2 = 0]_vars

=============================================================================
